---- MODULE Spec2Model ----
(***************************************************************************)
(* Transactional core of speculate-hub: the wallet ledger, the market     *)
(* store, the position store, the trade executor and resolve-and-settle.  *)
(* Every request handler is a sequence of persistence round-trips (each   *)
(* `await this.supabase.client...`); handlers of different requests       *)
(* interleave at those points.  An action below is one round-trip         *)
(* together with the synchronous code that follows it up to the next      *)
(* await.  A request's arrival is merged with its first round-trip.       *)
(*                                                                         *)
(* Money, shares and prices are integers in micro-units (DECIMAL(_, 6)).  *)
(***************************************************************************)
EXTENDS Integers, Sequences, FiniteSets, TLC

\* ---------------------------------------------------------------- bounds
\* requests admitted in one behaviour (a request that throws before its
\* first await is not counted)
MaxReq == 2
\* persistence calls that return an error in one behaviour
MaxFailures == 1

\* ------------------------------------------------------- program constants
\* DECIMAL(20, 6): one unit is 10^6 micro-units
Micro == 1000000
\* FEE_RATE = 0.02, as a percentage
FeePercent == 2

\* --------------------------------------------------------- model universe
Users == {"u1", "u2"}
Markets == {"m1"}
\* concurrent request handlers
Procs == {1, 2}
Sides == {"yes", "no"}
Statuses == {"draft", "active", "suspended", "resolved", "cancelled"}
Null == "null"
NoPosition ==
    [exists |-> FALSE, yes_shares |-> 0, no_shares |-> 0, avg_yes_price |-> 0,
     avg_no_price |-> 0, updated_at |-> 0]

\* request inputs (micro-units); 0 stands for an absent dto field
DepositAmounts == {0, 100 * Micro}
WithdrawAmounts == {0, 60 * Micro}
BuyAmounts == {0, 10 * Micro}
BuyShares == {0, 100 * Micro}
SellShares == {0, 100 * Micro}
\* the deposit every wallet has received before the first request
InitialDeposit == 100 * Micro

\* ----------------------------------------------------------- pricing (LMSR)
\* AMMService evaluated with liquidity b = 100 (decimal.js, 20 significant
\* digits, outputs rounded by toFixed(6)) on every market state that the
\* inputs above can reach within the trade bound.
\* calculateBuyCost on the market states reachable within the trade bound:
\* <<yesShares, noShares, side, shares>> :> <<cost, avgPrice>>, in micro-units
BuyCostTable ==
    (<<0, 0, "no", 18732071>> :> <<10000089, 533849>>)
 @@ (<<0, 0, "no", 100000000>> :> <<63251680, 632517>>)
 @@ (<<0, 0, "yes", 18732071>> :> <<10000089, 533849>>)
 @@ (<<0, 0, "yes", 100000000>> :> <<63251680, 632517>>)
 @@ (<<0, 18732071, "no", 17262268>> :> <<10000063, 579302>>)
 @@ (<<0, 18732071, "no", 100000000>> :> <<67561249, 675612>>)
 @@ (<<0, 18732071, "yes", 20476151>> :> <<9999982, 488372>>)
 @@ (<<0, 18732071, "yes", 100000000>> :> <<58751965, 587520>>)
 @@ (<<0, 32425690, "no", 16338158>> :> <<9999993, 612064>>)
 @@ (<<0, 32425690, "no", 100000000>> :> <<70559356, 705594>>)
 @@ (<<0, 32425690, "yes", 21950912>> :> <<10000060, 455565>>)
 @@ (<<0, 32425690, "yes", 100000000>> :> <<55379770, 553798>>)
 @@ (<<0, 35994339, "no", 16116333>> :> <<10000101, 620495>>)
 @@ (<<0, 35994339, "no", 100000000>> :> <<71316959, 713170>>)
 @@ (<<0, 35994339, "yes", 22365570>> :> <<10000041, 447118>>)
 @@ (<<0, 35994339, "yes", 100000000>> :> <<54493486, 544935>>)
 @@ (<<0, 100000000, "no", 13181686>> :> <<9999967, 758626>>)
 @@ (<<0, 100000000, "no", 100000000>> :> <<82993965, 829940>>)
 @@ (<<0, 100000000, "yes", 32425690>> :> <<9999927, 308395>>)
 @@ (<<0, 100000000, "yes", 100000000>> :> <<38748320, 387483>>)
 @@ (<<0, 113181686, "no", 12770653>> :> <<9999964, 783043>>)
 @@ (<<0, 113181686, "no", 100000000>> :> <<84926574, 849266>>)
 @@ (<<0, 113181686, "yes", 35238647>> :> <<10000021, 283780>>)
 @@ (<<0, 113181686, "yes", 100000000>> :> <<35692393, 356924>>)
 @@ (<<0, 118732071, "no", 12612724>> :> <<9999983, 792849>>)
 @@ (<<0, 118732071, "no", 100000000>> :> <<85692606, 856926>>)
 @@ (<<0, 118732071, "yes", 36511993>> :> <<9999946, 273881>>)
 @@ (<<0, 118732071, "yes", 100000000>> :> <<34438751, 344388>>)
 @@ (<<0, 200000000, "no", 11059952>> :> <<10000091, 904171>>)
 @@ (<<0, 200000000, "no", 100000000>> :> <<94009253, 940093>>)
 @@ (<<0, 200000000, "yes", 62278748>> :> <<9999929, 160567>>)
 @@ (<<0, 200000000, "yes", 100000000>> :> <<19006035, 190060>>)
 @@ (<<13181686, 0, "no", 19927979>> :> <<9999907, 501802>>)
 @@ (<<13181686, 0, "no", 100000000>> :> <<60101361, 601014>>)
 @@ (<<13181686, 0, "yes", 17671585>> :> <<10000048, 565883>>)
 @@ (<<13181686, 0, "yes", 100000000>> :> <<66307607, 663076>>)
 @@ (<<18732071, 0, "no", 20476151>> :> <<9999982, 488372>>)
 @@ (<<18732071, 0, "no", 100000000>> :> <<58751965, 587520>>)
 @@ (<<18732071, 0, "yes", 17262268>> :> <<10000063, 579302>>)
 @@ (<<18732071, 0, "yes", 100000000>> :> <<67561249, 675612>>)
 @@ (<<18732071, 20476151, "no", 18584061>> :> <<9999961, 538093>>)
 @@ (<<18732071, 20476151, "no", 100000000>> :> <<63661888, 636619>>)
 @@ (<<18732071, 20476151, "yes", 18881989>> :> <<9999956, 529603>>)
 @@ (<<18732071, 20476151, "yes", 100000000>> :> <<62839815, 628398>>)
 @@ (<<18732071, 100000000, "no", 13863754>> :> <<10000075, 721311>>)
 @@ (<<18732071, 100000000, "no", 100000000>> :> <<79968190, 799682>>)
 @@ (<<18732071, 100000000, "yes", 28906250>> :> <<9999995, 345946>>)
 @@ (<<18732071, 100000000, "yes", 100000000>> :> <<43248035, 432480>>)
 @@ (<<20476151, 18732071, "no", 18881989>> :> <<9999956, 529603>>)
 @@ (<<20476151, 18732071, "no", 100000000>> :> <<62839815, 628398>>)
 @@ (<<20476151, 18732071, "yes", 18584061>> :> <<9999961, 538093>>)
 @@ (<<20476151, 18732071, "yes", 100000000>> :> <<63661888, 636619>>)
 @@ (<<32425690, 100000000, "no", 14445877>> :> <<10000048, 692242>>)
 @@ (<<32425690, 100000000, "no", 100000000>> :> <<77547675, 775477>>)
 @@ (<<32425690, 100000000, "yes", 26655960>> :> <<10000053, 375153>>)
 @@ (<<32425690, 100000000, "yes", 100000000>> :> <<46620230, 466202>>)
 @@ (<<35994339, 0, "no", 22365570>> :> <<10000041, 447118>>)
 @@ (<<35994339, 0, "no", 100000000>> :> <<54493486, 544935>>)
 @@ (<<35994339, 0, "yes", 16116333>> :> <<10000101, 620495>>)
 @@ (<<35994339, 0, "yes", 100000000>> :> <<71316959, 713170>>)
 @@ (<<100000000, 0, "no", 32425690>> :> <<9999927, 308395>>)
 @@ (<<100000000, 0, "no", 100000000>> :> <<38748320, 387483>>)
 @@ (<<100000000, 0, "yes", 13181686>> :> <<9999967, 758626>>)
 @@ (<<100000000, 0, "yes", 100000000>> :> <<82993965, 829940>>)
 @@ (<<100000000, 18732071, "no", 28906250>> :> <<9999995, 345946>>)
 @@ (<<100000000, 18732071, "no", 100000000>> :> <<43248035, 432480>>)
 @@ (<<100000000, 18732071, "yes", 13863754>> :> <<10000075, 721311>>)
 @@ (<<100000000, 18732071, "yes", 100000000>> :> <<79968190, 799682>>)
 @@ (<<100000000, 32425690, "no", 26655960>> :> <<10000053, 375153>>)
 @@ (<<100000000, 32425690, "no", 100000000>> :> <<46620230, 466202>>)
 @@ (<<100000000, 32425690, "yes", 14445877>> :> <<10000048, 692242>>)
 @@ (<<100000000, 32425690, "yes", 100000000>> :> <<77547675, 775477>>)
 @@ (<<100000000, 59081650, "no", 22959518>> :> <<9999997, 435549>>)
 @@ (<<100000000, 59081650, "no", 100000000>> :> <<53267286, 532673>>)
 @@ (<<100000000, 59081650, "yes", 15821838>> :> <<10000007, 632038>>)
 @@ (<<100000000, 59081650, "yes", 100000000>> :> <<72345287, 723453>>)
 @@ (<<100000000, 100000000, "no", 18732071>> :> <<10000089, 533849>>)
 @@ (<<100000000, 100000000, "no", 100000000>> :> <<63251680, 632517>>)
 @@ (<<100000000, 100000000, "yes", 18732071>> :> <<10000089, 533849>>)
 @@ (<<100000000, 100000000, "yes", 100000000>> :> <<63251680, 632517>>)
 @@ (<<100000000, 118732071, "no", 17262268>> :> <<10000063, 579302>>)
 @@ (<<100000000, 118732071, "no", 100000000>> :> <<67561249, 675612>>)
 @@ (<<100000000, 118732071, "yes", 20476151>> :> <<9999982, 488372>>)
 @@ (<<100000000, 118732071, "yes", 100000000>> :> <<58751965, 587520>>)
 @@ (<<100000000, 132425690, "no", 16338158>> :> <<9999993, 612064>>)
 @@ (<<100000000, 132425690, "no", 100000000>> :> <<70559356, 705594>>)
 @@ (<<100000000, 132425690, "yes", 21950912>> :> <<10000060, 455565>>)
 @@ (<<100000000, 132425690, "yes", 100000000>> :> <<55379770, 553798>>)
 @@ (<<100000000, 135994339, "no", 16116333>> :> <<10000101, 620495>>)
 @@ (<<100000000, 135994339, "no", 100000000>> :> <<71316959, 713170>>)
 @@ (<<100000000, 135994339, "yes", 22365570>> :> <<10000041, 447118>>)
 @@ (<<100000000, 135994339, "yes", 100000000>> :> <<54493486, 544935>>)
 @@ (<<100000000, 200000000, "no", 13181686>> :> <<9999967, 758626>>)
 @@ (<<100000000, 200000000, "no", 100000000>> :> <<82993965, 829940>>)
 @@ (<<100000000, 200000000, "yes", 32425690>> :> <<9999927, 308395>>)
 @@ (<<100000000, 200000000, "yes", 100000000>> :> <<38748320, 387483>>)
 @@ (<<100000000, 213181686, "no", 12770653>> :> <<9999964, 783043>>)
 @@ (<<100000000, 213181686, "no", 100000000>> :> <<84926574, 849266>>)
 @@ (<<100000000, 213181686, "yes", 35238647>> :> <<10000021, 283780>>)
 @@ (<<100000000, 213181686, "yes", 100000000>> :> <<35692393, 356924>>)
 @@ (<<100000000, 218732071, "no", 12612724>> :> <<9999983, 792849>>)
 @@ (<<100000000, 218732071, "no", 100000000>> :> <<85692606, 856926>>)
 @@ (<<100000000, 218732071, "yes", 36511993>> :> <<9999946, 273881>>)
 @@ (<<100000000, 218732071, "yes", 100000000>> :> <<34438751, 344388>>)
 @@ (<<100000000, 300000000, "no", 11059952>> :> <<10000091, 904171>>)
 @@ (<<100000000, 300000000, "no", 100000000>> :> <<94009253, 940093>>)
 @@ (<<100000000, 300000000, "yes", 62278748>> :> <<9999929, 160567>>)
 @@ (<<100000000, 300000000, "yes", 100000000>> :> <<19006035, 190060>>)
 @@ (<<113181686, 0, "no", 35238647>> :> <<10000021, 283780>>)
 @@ (<<113181686, 0, "no", 100000000>> :> <<35692393, 356924>>)
 @@ (<<113181686, 0, "yes", 12770653>> :> <<9999964, 783043>>)
 @@ (<<113181686, 0, "yes", 100000000>> :> <<84926574, 849266>>)
 @@ (<<113181686, 35238647, "no", 28335953>> :> <<9999985, 352908>>)
 @@ (<<113181686, 35238647, "no", 100000000>> :> <<44061748, 440617>>)
 @@ (<<113181686, 35238647, "yes", 13998032>> :> <<9999977, 714384>>)
 @@ (<<113181686, 35238647, "yes", 100000000>> :> <<79396613, 793966>>)
 @@ (<<113181686, 100000000, "no", 19927979>> :> <<9999907, 501802>>)
 @@ (<<113181686, 100000000, "no", 100000000>> :> <<60101361, 601014>>)
 @@ (<<113181686, 100000000, "yes", 17671585>> :> <<10000048, 565883>>)
 @@ (<<113181686, 100000000, "yes", 100000000>> :> <<66307607, 663076>>)
 @@ (<<114445877, 32425690, "no", 29037476>> :> <<9999999, 344383>>)
 @@ (<<114445877, 32425690, "no", 100000000>> :> <<43064464, 430645>>)
 @@ (<<114445877, 32425690, "yes", 13833809>> :> <<9999983, 722865>>)
 @@ (<<114445877, 32425690, "yes", 100000000>> :> <<80096068, 800961>>)
 @@ (<<118732071, 0, "no", 36511993>> :> <<9999946, 273881>>)
 @@ (<<118732071, 0, "no", 100000000>> :> <<34438751, 344388>>)
 @@ (<<118732071, 0, "yes", 12612724>> :> <<9999983, 792849>>)
 @@ (<<118732071, 0, "yes", 100000000>> :> <<85692606, 856926>>)
 @@ (<<118732071, 100000000, "no", 20476151>> :> <<9999982, 488372>>)
 @@ (<<118732071, 100000000, "no", 100000000>> :> <<58751965, 587520>>)
 @@ (<<118732071, 100000000, "yes", 17262268>> :> <<10000063, 579302>>)
 @@ (<<118732071, 100000000, "yes", 100000000>> :> <<67561249, 675612>>)
 @@ (<<118732071, 120476151, "no", 18584061>> :> <<9999961, 538093>>)
 @@ (<<118732071, 120476151, "no", 100000000>> :> <<63661888, 636619>>)
 @@ (<<118732071, 120476151, "yes", 18881989>> :> <<9999956, 529603>>)
 @@ (<<118732071, 120476151, "yes", 100000000>> :> <<62839815, 628398>>)
 @@ (<<118732071, 200000000, "no", 13863754>> :> <<10000075, 721311>>)
 @@ (<<118732071, 200000000, "no", 100000000>> :> <<79968190, 799682>>)
 @@ (<<118732071, 200000000, "yes", 28906250>> :> <<9999995, 345946>>)
 @@ (<<118732071, 200000000, "yes", 100000000>> :> <<43248035, 432480>>)
 @@ (<<120476151, 118732071, "no", 18881989>> :> <<9999956, 529603>>)
 @@ (<<120476151, 118732071, "no", 100000000>> :> <<62839815, 628398>>)
 @@ (<<120476151, 118732071, "yes", 18584061>> :> <<9999961, 538093>>)
 @@ (<<120476151, 118732071, "yes", 100000000>> :> <<63661888, 636619>>)
 @@ (<<125952339, 0, "no", 38251877>> :> <<9999993, 261425>>)
 @@ (<<125952339, 0, "no", 100000000>> :> <<32840426, 328404>>)
 @@ (<<125952339, 0, "yes", 12419510>> :> <<9999907, 805177>>)
 @@ (<<125952339, 0, "yes", 100000000>> :> <<86647608, 866476>>)
 @@ (<<132425690, 200000000, "no", 14445877>> :> <<10000048, 692242>>)
 @@ (<<132425690, 200000000, "no", 100000000>> :> <<77547675, 775477>>)
 @@ (<<132425690, 200000000, "yes", 26655960>> :> <<10000053, 375153>>)
 @@ (<<132425690, 200000000, "yes", 100000000>> :> <<46620230, 466202>>)
 @@ (<<135994339, 100000000, "no", 22365570>> :> <<10000041, 447118>>)
 @@ (<<135994339, 100000000, "no", 100000000>> :> <<54493486, 544935>>)
 @@ (<<135994339, 100000000, "yes", 16116333>> :> <<10000101, 620495>>)
 @@ (<<135994339, 100000000, "yes", 100000000>> :> <<71316959, 713170>>)
 @@ (<<200000000, 0, "no", 62278748>> :> <<9999929, 160567>>)
 @@ (<<200000000, 0, "no", 100000000>> :> <<19006035, 190060>>)
 @@ (<<200000000, 0, "yes", 11059952>> :> <<10000091, 904171>>)
 @@ (<<200000000, 0, "yes", 100000000>> :> <<94009253, 940093>>)
 @@ (<<200000000, 32425690, "no", 50279999>> :> <<10000017, 198887>>)
 @@ (<<200000000, 32425690, "no", 100000000>> :> <<24452325, 244523>>)
 @@ (<<200000000, 32425690, "yes", 11536789>> :> <<10000051, 866797>>)
 @@ (<<200000000, 32425690, "yes", 100000000>> :> <<91291741, 912917>>)
 @@ (<<200000000, 62278748, "no", 41297150>> :> <<9999940, 242146>>)
 @@ (<<200000000, 62278748, "no", 100000000>> :> <<30320121, 303201>>)
 @@ (<<200000000, 62278748, "yes", 12132645>> :> <<10000068, 824228>>)
 @@ (<<200000000, 62278748, "yes", 100000000>> :> <<88106054, 881061>>)
 @@ (<<200000000, 100000000, "no", 32425690>> :> <<9999927, 308395>>)
 @@ (<<200000000, 100000000, "no", 100000000>> :> <<38748320, 387483>>)
 @@ (<<200000000, 100000000, "yes", 13181686>> :> <<9999967, 758626>>)
 @@ (<<200000000, 100000000, "yes", 100000000>> :> <<82993965, 829940>>)
 @@ (<<200000000, 118732071, "no", 28906250>> :> <<9999995, 345946>>)
 @@ (<<200000000, 118732071, "no", 100000000>> :> <<43248035, 432480>>)
 @@ (<<200000000, 118732071, "yes", 13863754>> :> <<10000075, 721311>>)
 @@ (<<200000000, 118732071, "yes", 100000000>> :> <<79968190, 799682>>)
 @@ (<<200000000, 132425690, "no", 26655960>> :> <<10000053, 375153>>)
 @@ (<<200000000, 132425690, "no", 100000000>> :> <<46620230, 466202>>)
 @@ (<<200000000, 132425690, "yes", 14445877>> :> <<10000048, 692242>>)
 @@ (<<200000000, 132425690, "yes", 100000000>> :> <<77547675, 775477>>)
 @@ (<<200000000, 200000000, "no", 18732071>> :> <<10000089, 533849>>)
 @@ (<<200000000, 200000000, "no", 100000000>> :> <<63251680, 632517>>)
 @@ (<<200000000, 200000000, "yes", 18732071>> :> <<10000089, 533849>>)
 @@ (<<200000000, 200000000, "yes", 100000000>> :> <<63251680, 632517>>)
 @@ (<<211059952, 0, "no", 66943359>> :> <<9999965, 149379>>)
 @@ (<<211059952, 0, "no", 100000000>> :> <<17373672, 173737>>)
 @@ (<<211059952, 0, "yes", 10929108>> :> <<10000017, 914989>>)
 @@ (<<211059952, 0, "yes", 100000000>> :> <<94782558, 947826>>)
 @@ (<<213181686, 0, "no", 67872620>> :> <<10000006, 147335>>)
 @@ (<<213181686, 0, "no", 100000000>> :> <<17073426, 170734>>)
 @@ (<<213181686, 0, "yes", 10905647>> :> <<10000045, 916960>>)
 @@ (<<213181686, 0, "yes", 100000000>> :> <<94922823, 949228>>)
 @@ (<<213181686, 100000000, "no", 35238647>> :> <<10000021, 283780>>)
 @@ (<<213181686, 100000000, "no", 100000000>> :> <<35692393, 356924>>)
 @@ (<<213181686, 100000000, "yes", 12770653>> :> <<9999964, 783043>>)
 @@ (<<213181686, 100000000, "yes", 100000000>> :> <<84926574, 849266>>)
 @@ (<<218732071, 100000000, "no", 36511993>> :> <<9999946, 273881>>)
 @@ (<<218732071, 100000000, "no", 100000000>> :> <<34438751, 344388>>)
 @@ (<<218732071, 100000000, "yes", 12612724>> :> <<9999983, 792849>>)
 @@ (<<218732071, 100000000, "yes", 100000000>> :> <<85692606, 856926>>)
 @@ (<<300000000, 0, "no", 100000000>> :> <<7990747, 79907>>)
 @@ (<<300000000, 0, "yes", 10267830>> :> <<10000040, 973920>>)
 @@ (<<300000000, 0, "yes", 100000000>> :> <<98895383, 988954>>)
 @@ (<<300000000, 100000000, "no", 62278748>> :> <<9999929, 160567>>)
 @@ (<<300000000, 100000000, "no", 100000000>> :> <<19006035, 190060>>)
 @@ (<<300000000, 100000000, "yes", 11059952>> :> <<10000091, 904171>>)
 @@ (<<300000000, 100000000, "yes", 100000000>> :> <<94009253, 940093>>)
 @@ (<<309974861, 0, "no", 100000000>> :> <<7290159, 72902>>)
 @@ (<<309974861, 0, "yes", 10223770>> :> <<9999928, 978106>>)
 @@ (<<309974861, 0, "yes", 100000000>> :> <<99181346, 991813>>)
 @@ (<<310267830, 0, "no", 100000000>> :> <<7270460, 72705>>)
 @@ (<<310267830, 0, "yes", 10222626>> :> <<10000008, 978223>>)
 @@ (<<310267830, 0, "yes", 100000000>> :> <<99189347, 991893>>)
 @@ (<<400000000, 0, "no", 100000000>> :> <<3104617, 31046>>)
 @@ (<<400000000, 0, "yes", 9974861>> :> <<10000042, 1002524>>)
 @@ (<<400000000, 0, "yes", 100000000>> :> <<100833673, 1008337>>)
 @@ (<<400000000, 100000000, "no", 100000000>> :> <<7990747, 79907>>)
 @@ (<<400000000, 100000000, "yes", 10267830>> :> <<10000040, 973920>>)
 @@ (<<400000000, 100000000, "yes", 100000000>> :> <<98895383, 988954>>)
 @@ (<<400000000, 200000000, "no", 62278748>> :> <<9999929, 160567>>)
 @@ (<<400000000, 200000000, "no", 100000000>> :> <<19006035, 190060>>)
 @@ (<<400000000, 200000000, "yes", 11059952>> :> <<10000091, 904171>>)
 @@ (<<400000000, 200000000, "yes", 100000000>> :> <<94009253, 940093>>)
 @@ (<<409974861, 0, "no", 100000000>> :> <<2818654, 28187>>)
 @@ (<<409974861, 0, "yes", 9958649>> :> <<10000042, 1004156>>)
 @@ (<<409974861, 0, "yes", 100000000>> :> <<100943159, 1009432>>)
 @@ (<<409974861, 100000000, "no", 100000000>> :> <<7290159, 72902>>)
 @@ (<<409974861, 100000000, "yes", 10223770>> :> <<9999928, 978106>>)
 @@ (<<409974861, 100000000, "yes", 100000000>> :> <<99181346, 991813>>)
 @@ (<<410267830, 100000000, "no", 100000000>> :> <<7270460, 72705>>)
 @@ (<<410267830, 100000000, "yes", 10222626>> :> <<10000008, 978223>>)
 @@ (<<410267830, 100000000, "yes", 100000000>> :> <<99189347, 991893>>)
 @@ (<<419933510, 0, "no", 100000000>> :> <<2558701, 25587>>)
 @@ (<<419933510, 0, "yes", 9943962>> :> <<10000007, 1005636>>)
 @@ (<<419933510, 0, "yes", 100000000>> :> <<101042319, 1010423>>)
 @@ (<<500000000, 0, "no", 100000000>> :> <<1166327, 11663>>)
 @@ (<<500000000, 0, "yes", 9866905>> :> <<10000081, 1013497>>)
 @@ (<<500000000, 0, "yes", 100000000>> :> <<101567554, 1015676>>)
 @@ (<<500000000, 100000000, "no", 100000000>> :> <<3104617, 31046>>)
 @@ (<<500000000, 100000000, "yes", 9974861>> :> <<10000042, 1002524>>)
 @@ (<<500000000, 100000000, "yes", 100000000>> :> <<100833673, 1008337>>)
 @@ (<<509866905, 0, "no", 100000000>> :> <<1057970, 10580>>)
 @@ (<<509866905, 0, "yes", 9860992>> :> <<10000076, 1014105>>)
 @@ (<<509866905, 0, "yes", 100000000>> :> <<101608017, 1016080>>)
 @@ (<<509974861, 0, "no", 100000000>> :> <<1056841, 10568>>)
 @@ (<<509974861, 0, "yes", 9860802>> :> <<9999946, 1014111>>)
 @@ (<<509974861, 0, "yes", 100000000>> :> <<101608438, 1016084>>)
 @@ (<<600000000, 0, "no", 100000000>> :> <<432446, 4324>>)
 @@ (<<600000000, 0, "yes", 9827042>> :> <<9999974, 1017598>>)
 @@ (<<600000000, 0, "yes", 100000000>> :> <<101840450, 1018404>>)

\* calculateSellReturn: <<yesShares, noShares, side, shares>> :> <<amountReceived, avgPrice>>
SellReturnTable ==
    (<<0, 100000000, "no", 100000000>> :> <<60771222, 607712>>)
 @@ (<<0, 113181686, "no", 100000000>> :> <<63707309, 637073>>)
 @@ (<<0, 118732071, "no", 100000000>> :> <<64911788, 649118>>)
 @@ (<<0, 200000000, "no", 100000000>> :> <<79739300, 797393>>)
 @@ (<<18732071, 100000000, "no", 100000000>> :> <<56447967, 564480>>)
 @@ (<<32425690, 100000000, "no", 100000000>> :> <<53208014, 532080>>)
 @@ (<<100000000, 0, "yes", 100000000>> :> <<60771222, 607712>>)
 @@ (<<100000000, 18732071, "yes", 100000000>> :> <<56447967, 564480>>)
 @@ (<<100000000, 32425690, "yes", 100000000>> :> <<53208014, 532080>>)
 @@ (<<100000000, 59081650, "yes", 100000000>> :> <<46821627, 468216>>)
 @@ (<<100000000, 100000000, "no", 100000000>> :> <<37228778, 372288>>)
 @@ (<<100000000, 100000000, "yes", 100000000>> :> <<37228778, 372288>>)
 @@ (<<100000000, 118732071, "no", 100000000>> :> <<41552033, 415520>>)
 @@ (<<100000000, 118732071, "yes", 100000000>> :> <<33088212, 330882>>)
 @@ (<<100000000, 132425690, "no", 100000000>> :> <<44791986, 447920>>)
 @@ (<<100000000, 132425690, "yes", 100000000>> :> <<30207678, 302077>>)
 @@ (<<100000000, 135994339, "no", 100000000>> :> <<45643513, 456435>>)
 @@ (<<100000000, 135994339, "yes", 100000000>> :> <<29479784, 294798>>)
 @@ (<<100000000, 200000000, "no", 100000000>> :> <<60771222, 607712>>)
 @@ (<<100000000, 200000000, "yes", 100000000>> :> <<18260700, 182607>>)
 @@ (<<100000000, 213181686, "no", 100000000>> :> <<63707309, 637073>>)
 @@ (<<100000000, 213181686, "yes", 100000000>> :> <<16403879, 164039>>)
 @@ (<<100000000, 218732071, "no", 100000000>> :> <<64911788, 649118>>)
 @@ (<<100000000, 218732071, "yes", 100000000>> :> <<15667888, 156679>>)
 @@ (<<100000000, 300000000, "no", 100000000>> :> <<79739300, 797393>>)
 @@ (<<100000000, 300000000, "yes", 100000000>> :> <<7677385, 76774>>)
 @@ (<<113181686, 0, "yes", 100000000>> :> <<63707309, 637073>>)
 @@ (<<113181686, 35238647, "yes", 100000000>> :> <<55666163, 556662>>)
 @@ (<<113181686, 100000000, "no", 100000000>> :> <<34292691, 342927>>)
 @@ (<<113181686, 100000000, "yes", 100000000>> :> <<40255555, 402556>>)
 @@ (<<114445877, 32425690, "yes", 100000000>> :> <<56624339, 566243>>)
 @@ (<<118732071, 0, "yes", 100000000>> :> <<64911788, 649118>>)
 @@ (<<118732071, 100000000, "no", 100000000>> :> <<33088212, 330882>>)
 @@ (<<118732071, 100000000, "yes", 100000000>> :> <<41552033, 415520>>)
 @@ (<<118732071, 120476151, "no", 100000000>> :> <<37624491, 376245>>)
 @@ (<<118732071, 120476151, "yes", 100000000>> :> <<36834657, 368347>>)
 @@ (<<118732071, 200000000, "no", 100000000>> :> <<56447967, 564480>>)
 @@ (<<118732071, 200000000, "yes", 100000000>> :> <<21167817, 211678>>)
 @@ (<<120476151, 118732071, "no", 100000000>> :> <<36834657, 368347>>)
 @@ (<<120476151, 118732071, "yes", 100000000>> :> <<37624491, 376245>>)
 @@ (<<125952339, 0, "yes", 100000000>> :> <<66447434, 664474>>)
 @@ (<<132425690, 200000000, "no", 100000000>> :> <<53208014, 532080>>)
 @@ (<<132425690, 200000000, "yes", 100000000>> :> <<23493410, 234934>>)
 @@ (<<135994339, 100000000, "no", 100000000>> :> <<29479784, 294798>>)
 @@ (<<135994339, 100000000, "yes", 100000000>> :> <<45643513, 456435>>)
 @@ (<<200000000, 0, "yes", 100000000>> :> <<79739300, 797393>>)
 @@ (<<200000000, 32425690, "yes", 100000000>> :> <<74506590, 745066>>)
 @@ (<<200000000, 62278748, "yes", 100000000>> :> <<68868903, 688689>>)
 @@ (<<200000000, 100000000, "no", 100000000>> :> <<18260700, 182607>>)
 @@ (<<200000000, 100000000, "yes", 100000000>> :> <<60771222, 607712>>)
 @@ (<<200000000, 118732071, "no", 100000000>> :> <<21167817, 211678>>)
 @@ (<<200000000, 118732071, "yes", 100000000>> :> <<56447967, 564480>>)
 @@ (<<200000000, 132425690, "no", 100000000>> :> <<23493410, 234934>>)
 @@ (<<200000000, 132425690, "yes", 100000000>> :> <<53208014, 532080>>)
 @@ (<<200000000, 200000000, "no", 100000000>> :> <<37228778, 372288>>)
 @@ (<<200000000, 200000000, "yes", 100000000>> :> <<37228778, 372288>>)
 @@ (<<211059952, 0, "yes", 100000000>> :> <<81307649, 813076>>)
 @@ (<<213181686, 0, "yes", 100000000>> :> <<81596121, 815961>>)
 @@ (<<213181686, 100000000, "no", 100000000>> :> <<16403879, 164039>>)
 @@ (<<213181686, 100000000, "yes", 100000000>> :> <<63707309, 637073>>)
 @@ (<<218732071, 100000000, "no", 100000000>> :> <<15667888, 156679>>)
 @@ (<<218732071, 100000000, "yes", 100000000>> :> <<64911788, 649118>>)
 @@ (<<300000000, 0, "yes", 100000000>> :> <<90322615, 903226>>)
 @@ (<<300000000, 100000000, "no", 100000000>> :> <<7677385, 76774>>)
 @@ (<<300000000, 100000000, "yes", 100000000>> :> <<79739300, 797393>>)
 @@ (<<309974861, 0, "yes", 100000000>> :> <<90995730, 909957>>)
 @@ (<<310267830, 0, "yes", 100000000>> :> <<91014656, 910147>>)
 @@ (<<400000000, 0, "yes", 100000000>> :> <<95017132, 950171>>)
 @@ (<<400000000, 100000000, "no", 100000000>> :> <<2982868, 29829>>)
 @@ (<<400000000, 100000000, "yes", 100000000>> :> <<90322615, 903226>>)
 @@ (<<400000000, 200000000, "no", 100000000>> :> <<7677385, 76774>>)
 @@ (<<400000000, 200000000, "yes", 100000000>> :> <<79739300, 797393>>)
 @@ (<<409974861, 0, "yes", 100000000>> :> <<95291882, 952919>>)
 @@ (<<409974861, 100000000, "no", 100000000>> :> <<2708118, 27081>>)
 @@ (<<409974861, 100000000, "yes", 100000000>> :> <<90995730, 909957>>)
 @@ (<<410267830, 100000000, "no", 100000000>> :> <<2700431, 27004>>)
 @@ (<<410267830, 100000000, "yes", 100000000>> :> <<91014656, 910147>>)
 @@ (<<419933510, 0, "yes", 100000000>> :> <<95541640, 955416>>)
 @@ (<<500000000, 0, "yes", 100000000>> :> <<96879411, 968794>>)
 @@ (<<500000000, 100000000, "no", 100000000>> :> <<1120589, 11206>>)
 @@ (<<500000000, 100000000, "yes", 100000000>> :> <<95017132, 950171>>)
 @@ (<<509866905, 0, "yes", 100000000>> :> <<96983519, 969835>>)
 @@ (<<509974861, 0, "yes", 100000000>> :> <<96984604, 969846>>)
 @@ (<<600000000, 0, "yes", 100000000>> :> <<97584513, 975845>>)

\* calculateSharesForAmount: <<yesShares, noShares, side, amount>> :> <<shares, avgPrice>>
SharesForAmountTable ==
    (<<0, 0, "no", 10000000>> :> <<18732071, 533844>>)
 @@ (<<0, 0, "yes", 10000000>> :> <<18732071, 533844>>)
 @@ (<<0, 18732071, "no", 10000000>> :> <<17262268, 579298>>)
 @@ (<<0, 18732071, "yes", 10000000>> :> <<20476151, 488373>>)
 @@ (<<0, 32425690, "no", 10000000>> :> <<16338158, 612064>>)
 @@ (<<0, 32425690, "yes", 10000000>> :> <<21950912, 455562>>)
 @@ (<<0, 35994339, "no", 10000000>> :> <<16116333, 620489>>)
 @@ (<<0, 35994339, "yes", 10000000>> :> <<22365570, 447116>>)
 @@ (<<0, 100000000, "no", 10000000>> :> <<13181686, 758628>>)
 @@ (<<0, 100000000, "yes", 10000000>> :> <<32425690, 308397>>)
 @@ (<<0, 113181686, "no", 10000000>> :> <<12770653, 783045>>)
 @@ (<<0, 113181686, "yes", 10000000>> :> <<35238647, 283779>>)
 @@ (<<0, 118732071, "no", 10000000>> :> <<12612724, 792850>>)
 @@ (<<0, 118732071, "yes", 10000000>> :> <<36511993, 273883>>)
 @@ (<<0, 200000000, "no", 10000000>> :> <<11059952, 904163>>)
 @@ (<<0, 200000000, "yes", 10000000>> :> <<62278748, 160568>>)
 @@ (<<13181686, 0, "no", 10000000>> :> <<19927979, 501807>>)
 @@ (<<13181686, 0, "yes", 10000000>> :> <<17671585, 565880>>)
 @@ (<<18732071, 0, "no", 10000000>> :> <<20476151, 488373>>)
 @@ (<<18732071, 0, "yes", 10000000>> :> <<17262268, 579298>>)
 @@ (<<18732071, 20476151, "no", 10000000>> :> <<18584061, 538096>>)
 @@ (<<18732071, 20476151, "yes", 10000000>> :> <<18881989, 529605>>)
 @@ (<<18732071, 100000000, "no", 10000000>> :> <<13863754, 721305>>)
 @@ (<<18732071, 100000000, "yes", 10000000>> :> <<28906250, 345946>>)
 @@ (<<20476151, 18732071, "no", 10000000>> :> <<18881989, 529605>>)
 @@ (<<20476151, 18732071, "yes", 10000000>> :> <<18584061, 538096>>)
 @@ (<<32425690, 100000000, "no", 10000000>> :> <<14445877, 692239>>)
 @@ (<<32425690, 100000000, "yes", 10000000>> :> <<26655960, 375151>>)
 @@ (<<35994339, 0, "no", 10000000>> :> <<22365570, 447116>>)
 @@ (<<35994339, 0, "yes", 10000000>> :> <<16116333, 620489>>)
 @@ (<<100000000, 0, "no", 10000000>> :> <<32425690, 308397>>)
 @@ (<<100000000, 0, "yes", 10000000>> :> <<13181686, 758628>>)
 @@ (<<100000000, 18732071, "no", 10000000>> :> <<28906250, 345946>>)
 @@ (<<100000000, 18732071, "yes", 10000000>> :> <<13863754, 721305>>)
 @@ (<<100000000, 32425690, "no", 10000000>> :> <<26655960, 375151>>)
 @@ (<<100000000, 32425690, "yes", 10000000>> :> <<14445877, 692239>>)
 @@ (<<100000000, 59081650, "no", 10000000>> :> <<22959518, 435549>>)
 @@ (<<100000000, 59081650, "yes", 10000000>> :> <<15821838, 632038>>)
 @@ (<<100000000, 100000000, "no", 10000000>> :> <<18732071, 533844>>)
 @@ (<<100000000, 100000000, "yes", 10000000>> :> <<18732071, 533844>>)
 @@ (<<100000000, 118732071, "no", 10000000>> :> <<17262268, 579298>>)
 @@ (<<100000000, 118732071, "yes", 10000000>> :> <<20476151, 488373>>)
 @@ (<<100000000, 132425690, "no", 10000000>> :> <<16338158, 612064>>)
 @@ (<<100000000, 132425690, "yes", 10000000>> :> <<21950912, 455562>>)
 @@ (<<100000000, 135994339, "no", 10000000>> :> <<16116333, 620489>>)
 @@ (<<100000000, 135994339, "yes", 10000000>> :> <<22365570, 447116>>)
 @@ (<<100000000, 200000000, "no", 10000000>> :> <<13181686, 758628>>)
 @@ (<<100000000, 200000000, "yes", 10000000>> :> <<32425690, 308397>>)
 @@ (<<100000000, 213181686, "no", 10000000>> :> <<12770653, 783045>>)
 @@ (<<100000000, 213181686, "yes", 10000000>> :> <<35238647, 283779>>)
 @@ (<<100000000, 218732071, "no", 10000000>> :> <<12612724, 792850>>)
 @@ (<<100000000, 218732071, "yes", 10000000>> :> <<36511993, 273883>>)
 @@ (<<100000000, 300000000, "no", 10000000>> :> <<11059952, 904163>>)
 @@ (<<100000000, 300000000, "yes", 10000000>> :> <<62278748, 160568>>)
 @@ (<<113181686, 0, "no", 10000000>> :> <<35238647, 283779>>)
 @@ (<<113181686, 0, "yes", 10000000>> :> <<12770653, 783045>>)
 @@ (<<113181686, 35238647, "no", 10000000>> :> <<28335953, 352909>>)
 @@ (<<113181686, 35238647, "yes", 10000000>> :> <<13998032, 714386>>)
 @@ (<<113181686, 100000000, "no", 10000000>> :> <<19927979, 501807>>)
 @@ (<<113181686, 100000000, "yes", 10000000>> :> <<17671585, 565880>>)
 @@ (<<114445877, 32425690, "no", 10000000>> :> <<29037476, 344383>>)
 @@ (<<114445877, 32425690, "yes", 10000000>> :> <<13833809, 722867>>)
 @@ (<<118732071, 0, "no", 10000000>> :> <<36511993, 273883>>)
 @@ (<<118732071, 0, "yes", 10000000>> :> <<12612724, 792850>>)
 @@ (<<118732071, 100000000, "no", 10000000>> :> <<20476151, 488373>>)
 @@ (<<118732071, 100000000, "yes", 10000000>> :> <<17262268, 579298>>)
 @@ (<<118732071, 120476151, "no", 10000000>> :> <<18584061, 538096>>)
 @@ (<<118732071, 120476151, "yes", 10000000>> :> <<18881989, 529605>>)
 @@ (<<118732071, 200000000, "no", 10000000>> :> <<13863754, 721305>>)
 @@ (<<118732071, 200000000, "yes", 10000000>> :> <<28906250, 345946>>)
 @@ (<<120476151, 118732071, "no", 10000000>> :> <<18881989, 529605>>)
 @@ (<<120476151, 118732071, "yes", 10000000>> :> <<18584061, 538096>>)
 @@ (<<125952339, 0, "no", 10000000>> :> <<38251877, 261425>>)
 @@ (<<125952339, 0, "yes", 10000000>> :> <<12419510, 805185>>)
 @@ (<<132425690, 200000000, "no", 10000000>> :> <<14445877, 692239>>)
 @@ (<<132425690, 200000000, "yes", 10000000>> :> <<26655960, 375151>>)
 @@ (<<135994339, 100000000, "no", 10000000>> :> <<22365570, 447116>>)
 @@ (<<135994339, 100000000, "yes", 10000000>> :> <<16116333, 620489>>)
 @@ (<<200000000, 0, "no", 10000000>> :> <<62278748, 160568>>)
 @@ (<<200000000, 0, "yes", 10000000>> :> <<11059952, 904163>>)
 @@ (<<200000000, 32425690, "no", 10000000>> :> <<50279999, 198886>>)
 @@ (<<200000000, 32425690, "yes", 10000000>> :> <<11536789, 866792>>)
 @@ (<<200000000, 62278748, "no", 10000000>> :> <<41297150, 242147>>)
 @@ (<<200000000, 62278748, "yes", 10000000>> :> <<12132645, 824223>>)
 @@ (<<200000000, 100000000, "no", 10000000>> :> <<32425690, 308397>>)
 @@ (<<200000000, 100000000, "yes", 10000000>> :> <<13181686, 758628>>)
 @@ (<<200000000, 118732071, "no", 10000000>> :> <<28906250, 345946>>)
 @@ (<<200000000, 118732071, "yes", 10000000>> :> <<13863754, 721305>>)
 @@ (<<200000000, 132425690, "no", 10000000>> :> <<26655960, 375151>>)
 @@ (<<200000000, 132425690, "yes", 10000000>> :> <<14445877, 692239>>)
 @@ (<<200000000, 200000000, "no", 10000000>> :> <<18732071, 533844>>)
 @@ (<<200000000, 200000000, "yes", 10000000>> :> <<18732071, 533844>>)
 @@ (<<211059952, 0, "no", 10000000>> :> <<66943359, 149380>>)
 @@ (<<211059952, 0, "yes", 10000000>> :> <<10929108, 914988>>)
 @@ (<<213181686, 0, "no", 10000000>> :> <<67872620, 147335>>)
 @@ (<<213181686, 0, "yes", 10000000>> :> <<10905647, 916956>>)
 @@ (<<213181686, 100000000, "no", 10000000>> :> <<35238647, 283779>>)
 @@ (<<213181686, 100000000, "yes", 10000000>> :> <<12770653, 783045>>)
 @@ (<<218732071, 100000000, "no", 10000000>> :> <<36511993, 273883>>)
 @@ (<<218732071, 100000000, "yes", 10000000>> :> <<12612724, 792850>>)
 @@ (<<300000000, 0, "no", 10000000>> :> <<100000000, 100000>>)
 @@ (<<300000000, 0, "yes", 10000000>> :> <<10267830, 973916>>)
 @@ (<<300000000, 100000000, "no", 10000000>> :> <<62278748, 160568>>)
 @@ (<<300000000, 100000000, "yes", 10000000>> :> <<11059952, 904163>>)
 @@ (<<309974861, 0, "no", 10000000>> :> <<100000000, 100000>>)
 @@ (<<309974861, 0, "yes", 10000000>> :> <<10223770, 978113>>)
 @@ (<<310267830, 0, "no", 10000000>> :> <<100000000, 100000>>)
 @@ (<<310267830, 0, "yes", 10000000>> :> <<10222626, 978222>>)
 @@ (<<400000000, 0, "no", 10000000>> :> <<100000000, 100000>>)
 @@ (<<400000000, 0, "yes", 10000000>> :> <<9974861, 1002520>>)
 @@ (<<400000000, 100000000, "no", 10000000>> :> <<100000000, 100000>>)
 @@ (<<400000000, 100000000, "yes", 10000000>> :> <<10267830, 973916>>)
 @@ (<<400000000, 200000000, "no", 10000000>> :> <<62278748, 160568>>)
 @@ (<<400000000, 200000000, "yes", 10000000>> :> <<11059952, 904163>>)
 @@ (<<409974861, 0, "no", 10000000>> :> <<100000000, 100000>>)
 @@ (<<409974861, 0, "yes", 10000000>> :> <<9958649, 1004152>>)
 @@ (<<409974861, 100000000, "no", 10000000>> :> <<100000000, 100000>>)
 @@ (<<409974861, 100000000, "yes", 10000000>> :> <<10223770, 978113>>)
 @@ (<<410267830, 100000000, "no", 10000000>> :> <<100000000, 100000>>)
 @@ (<<410267830, 100000000, "yes", 10000000>> :> <<10222626, 978222>>)
 @@ (<<419933510, 0, "no", 10000000>> :> <<100000000, 100000>>)
 @@ (<<419933510, 0, "yes", 10000000>> :> <<9943962, 1005635>>)
 @@ (<<500000000, 0, "no", 10000000>> :> <<100000000, 100000>>)
 @@ (<<500000000, 0, "yes", 10000000>> :> <<9866905, 1013489>>)
 @@ (<<500000000, 100000000, "no", 10000000>> :> <<100000000, 100000>>)
 @@ (<<500000000, 100000000, "yes", 10000000>> :> <<9974861, 1002520>>)
 @@ (<<509866905, 0, "no", 10000000>> :> <<100000000, 100000>>)
 @@ (<<509866905, 0, "yes", 10000000>> :> <<9860992, 1014097>>)
 @@ (<<509974861, 0, "no", 10000000>> :> <<100000000, 100000>>)
 @@ (<<509974861, 0, "yes", 10000000>> :> <<9860802, 1014116>>)
 @@ (<<600000000, 0, "no", 10000000>> :> <<100000000, 100000>>)
 @@ (<<600000000, 0, "yes", 10000000>> :> <<9827042, 1017600>>)


\* <<quotient, remainder>> of a * b by c, computed without leaving 32 bits
RECURSIVE MulDivRem(_, _, _)
MulDivRem(a, b, c) ==
    IF b = 0 THEN <<0, 0>>
    ELSE LET h == MulDivRem(a, b \div 2, c)
             add == IF b % 2 = 1 THEN a ELSE 0
             t == 2 * h[2] + (add % c)
         IN  <<2 * h[1] + (add \div c) + (t \div c), t % c>>

\* AMMService.calculateBuyCost: cost, avgPrice and the new AMM state
calculateBuyCost(state, side, shares) ==
    LET r == BuyCostTable[<<state.yesShares, state.noShares, side, shares>>]
    IN  [cost |-> r[1], avgPrice |-> r[2],
         newYesShares |-> IF side = "yes" THEN state.yesShares + shares
                          ELSE state.yesShares,
         newNoShares |-> IF side = "yes" THEN state.noShares
                         ELSE state.noShares + shares]

\* the two guards of calculateSellReturn that throw before any arithmetic
sellExceedsMarket(state, side, shares) ==
    \/ side = "yes" /\ shares > state.yesShares
    \/ side = "no" /\ shares > state.noShares

\* a sell return whose new state still holds the shares sold
calculateSellReturnKeepsShares(state, side, shares) ==
    LET r == SellReturnTable[<<state.yesShares, state.noShares, side, shares>>]
    IN  [amountReceived |-> r[1], avgPrice |-> r[2],
         newYesShares |-> state.yesShares,
         newNoShares |-> state.noShares]

\* AMMService.calculateSellReturn, for shares the market holds
calculateSellReturn(state, side, shares) ==
    LET r == SellReturnTable[<<state.yesShares, state.noShares, side, shares>>]
    IN  [amountReceived |-> r[1], avgPrice |-> r[2],
         newYesShares |-> IF side = "yes" THEN state.yesShares - shares
                          ELSE state.yesShares,
         newNoShares |-> IF side = "yes" THEN state.noShares
                         ELSE state.noShares - shares]

\* AMMService.calculateSharesForAmount: the bisection's result
calculateSharesForAmount(state, side, amount) ==
    LET r == SharesForAmountTable[<<state.yesShares, state.noShares, side, amount>>]
    IN  [shares |-> r[1], avgPrice |-> r[2]]

\* ------------------------------------------------------------------ state
VARIABLES
    wallets,        \* wallets table: user -> [balance, frozen_balance]
    transactions,   \* wallet_transactions, per wallet, in creation order
    markets,        \* markets table
    positions,      \* positions table: user -> market -> row or NoPosition
    trades,         \* trades table, per market, in creation order
    clock,          \* source of positions.updated_at
    proc,           \* per handler: the request it runs, its locals, its position
    reply,          \* what the request that just finished returned or threw
    nreq,           \* requests admitted so far
    nfail           \* persistence errors so far

vars == <<wallets, transactions, markets, positions, trades, clock, proc, reply,
          nreq, nfail>>

\* a handler that runs no request
Idle ==
    [pc |-> "idle", rid |-> 0, user |-> Null, market |-> Null, type |-> Null,
     side |-> Null, amount |-> 0, shares |-> 0, cost |-> 0, avgPrice |-> 0,
     yesShares |-> 0, noShares |-> 0, newYesShares |-> 0, newNoShares |-> 0,
     currentBalance |-> 0, newBalance |-> 0, volume |-> 0,
     position |-> NoPosition, fromStatus |-> Null, status |-> Null,
     outcome |-> Null,
     positionList |-> <<>>, settled |-> 0]

NoReply == [op |-> Null, error |-> Null, user |-> Null, market |-> Null, value |-> 0]

\* a request may start on a handler only when every lower handler is busy
\* (handlers are interchangeable), and only while requests are still admitted
CanStart(p) ==
    /\ nreq < MaxReq
    /\ proc[p].pc = "idle"
    /\ \A q \in Procs : q < p => proc[q].pc # "idle"

\* the handler leaves the request: `return` (error = "ok") or `throw`
Finish(p, op, error, value) ==
    /\ proc' = [proc EXCEPT ![p] = Idle]
    /\ reply' = [op |-> op, error |-> error, user |-> proc[p].user,
                 market |-> proc[p].market, value |-> value]

\* a request that throws before its first await returns
Reject(op, error, user, market) ==
    /\ reply' = [op |-> op, error |-> error, user |-> user, market |-> market,
                 value |-> 0]
    /\ UNCHANGED <<proc, nreq>>

\* the handler moves on to its next round-trip with the locals `locals`
Goto(p, locals) ==
    /\ proc' = [proc EXCEPT ![p] = locals @@ proc[p]]
    /\ reply' = NoReply

\* first round-trip of a request: the locals start from Idle
Begin(p, locals) ==
    /\ proc' = [proc EXCEPT ![p] = locals @@ [Idle EXCEPT !.rid = nreq + 1]]
    /\ reply' = NoReply
    /\ nreq' = nreq + 1

\* a persistence call returns an error and the handler throws
Fail(p, op) ==
    /\ nfail < MaxFailures
    /\ nfail' = nfail + 1
    /\ Finish(p, op, "Internal", 0)

\* ---------------------------------------------------------- wallet ledger
\* CHECK (balance >= 0) of the wallets table
balanceCheck(balance) == balance >= 0

\* wallets.update({balance: newBalance}).eq("id", wallet.id)
updateBalance(table, user, newBalance) ==
    [table EXCEPT ![user].balance = newBalance]

\* a row whose balance_after repeats the balance read before the operation
transactionRowStaleAfter(type, amount, balance_before, balance_after, reference_id) ==
    [type |-> type, amount |-> amount, balance_before |-> balance_before,
     balance_after |-> balance_before, reference_id |-> reference_id]

\* the row the ledger operations hand to recordTransaction
transactionRow(type, amount, balance_before, balance_after, reference_id) ==
    [type |-> type, amount |-> amount, balance_before |-> balance_before,
     balance_after |-> balance_after, reference_id |-> reference_id]

\* wallet_transactions.insert(data)
insertTransaction(table, user, row) ==
    [table EXCEPT ![user] = Append(@, row)]

\* WalletsService.recordTransaction: the insert appends the row, or it fails
\* and the error is only logged
recordTransaction(user, row) ==
    \/ /\ transactions' = insertTransaction(transactions, user, row)
       /\ UNCHANGED nfail
    \/ /\ nfail < MaxFailures
       /\ nfail' = nfail + 1
       /\ UNCHANGED transactions

\* the balance check with the amount left out of the comparison
insufficientBalanceIgnoresAmount(currentBalance, amount) == currentBalance < 0

\* `currentBalance < amount` of withdraw and deductForTrade
insufficientBalance(currentBalance, amount) == currentBalance < amount

\* the wallets update of a ledger operation: the write, its rejection by the
\* table's CHECK, or another error; the handler throws on either error
walletUpdate(p, op, user, next) ==
    \/ /\ balanceCheck(proc[p].newBalance)
       /\ wallets' = updateBalance(wallets, user, proc[p].newBalance)
       /\ Goto(p, [pc |-> next])
       /\ UNCHANGED nfail
    \/ /\ ~balanceCheck(proc[p].newBalance)
       /\ Finish(p, op, "Internal", 0)
       /\ UNCHANGED <<wallets, nfail>>
    \/ /\ UNCHANGED wallets
       /\ Fail(p, op)

\* deposit: amount check, findByUserId, newBalance
deposit(p, userId, amount) ==
    /\ CanStart(p)
    /\ IF amount <= 0
       THEN Reject("deposit", "InvalidAmount", userId, Null)
       ELSE Begin(p, [pc |-> "deposit_update", user |-> userId, amount |-> amount,
                      currentBalance |-> wallets[userId].balance,
                      newBalance |-> wallets[userId].balance + amount])
    /\ UNCHANGED <<wallets, transactions, markets, positions, trades, clock, nfail>>

\* deposit: the wallets update
depositUpdate(p) ==
    /\ proc[p].pc = "deposit_update"
    /\ walletUpdate(p, "deposit", proc[p].user, "deposit_record")
    /\ UNCHANGED <<transactions, markets, positions, trades, clock, nreq>>

\* deposit: recordTransaction, then return
depositRecord(p) ==
    /\ proc[p].pc = "deposit_record"
    /\ recordTransaction(proc[p].user,
          transactionRow("deposit", proc[p].amount, proc[p].currentBalance,
                         proc[p].newBalance, Null))
    /\ Finish(p, "deposit", "ok", 0)
    /\ UNCHANGED <<wallets, markets, positions, trades, clock, nreq>>

\* withdraw: amount check, findByUserId, balance check, newBalance
withdraw(p, userId, amount) ==
    /\ CanStart(p)
    /\ IF amount <= 0
       THEN Reject("withdraw", "InvalidAmount", userId, Null)
       ELSE IF insufficientBalance(wallets[userId].balance, amount)
       THEN Reject("withdraw", "InsufficientFunds", userId, Null)
       ELSE Begin(p, [pc |-> "withdraw_update", user |-> userId, amount |-> amount,
                      currentBalance |-> wallets[userId].balance,
                      newBalance |-> wallets[userId].balance - amount])
    /\ UNCHANGED <<wallets, transactions, markets, positions, trades, clock, nfail>>

\* withdraw: the wallets update
withdrawUpdate(p) ==
    /\ proc[p].pc = "withdraw_update"
    /\ walletUpdate(p, "withdraw", proc[p].user, "withdraw_record")
    /\ UNCHANGED <<transactions, markets, positions, trades, clock, nreq>>

\* withdraw: recordTransaction, then return
withdrawRecord(p) ==
    /\ proc[p].pc = "withdraw_record"
    /\ recordTransaction(proc[p].user,
          transactionRow("withdraw", 0 - proc[p].amount, proc[p].currentBalance,
                         proc[p].newBalance, Null))
    /\ Finish(p, "withdraw", "ok", 0)
    /\ UNCHANGED <<wallets, markets, positions, trades, clock, nreq>>

\* ---------------------------------------------------------- trade executor
\* the AMM state executeTrade copies out of the market row it loaded
ammState(market) == [yesShares |-> market.yes_shares, noShares |-> market.no_shares]

\* executeBuy: shares, cost and avgPrice of the request,
\* `if (dto.amount) ... else if (dto.shares) ... else throw`
buyQuote(state, side, amount, shares) ==
    IF amount # 0
    THEN LET result == calculateSharesForAmount(state, side, amount)
         IN  [valid |-> TRUE, shares |-> result.shares, cost |-> amount,
              avgPrice |-> result.avgPrice]
    ELSE IF shares # 0
    THEN LET result == calculateBuyCost(state, side, shares)
         IN  [valid |-> TRUE, shares |-> shares, cost |-> result.cost,
              avgPrice |-> result.avgPrice]
    ELSE [valid |-> FALSE, shares |-> 0, cost |-> 0, avgPrice |-> 0]

\* a market is open for trading until it is resolved or cancelled
marketOpenUnlessFinal(status) == status \notin {"resolved", "cancelled"}

\* executeTrade: `market.status !== "active"` refuses the trade
marketOpen(status) == status = "active"

\* executeTrade: findById, the status and time-window checks, then the
\* synchronous head of executeBuy / executeSell
executeTrade(p, userId, marketId, type, side, amount, shares, inWindow) ==
    LET market == markets[marketId]
        state == ammState(market)
        quote == buyQuote(state, side, amount, shares)
    IN
    /\ CanStart(p)
    /\ IF ~marketOpen(market.status)
       THEN Reject("executeTrade", "MarketClosed", userId, marketId)
       ELSE IF ~inWindow
       THEN Reject("executeTrade", "OutOfWindow", userId, marketId)
       ELSE IF type = "buy" /\ (~quote.valid \/ quote.shares <= 0)
       THEN Reject("executeTrade", "InvalidTrade", userId, marketId)
       ELSE IF type = "sell" /\ shares <= 0
       THEN Reject("executeTrade", "InvalidTrade", userId, marketId)
       ELSE IF type = "buy"
       THEN Begin(p, [pc |-> "deduct_find", user |-> userId, market |-> marketId,
                      type |-> type, side |-> side, amount |-> amount,
                      shares |-> quote.shares, cost |-> quote.cost,
                      avgPrice |-> quote.avgPrice,
                      yesShares |-> state.yesShares, noShares |-> state.noShares])
       ELSE Begin(p, [pc |-> "sell_position", user |-> userId, market |-> marketId,
                      type |-> type, side |-> side, shares |-> shares,
                      yesShares |-> state.yesShares, noShares |-> state.noShares])
    /\ UNCHANGED <<wallets, transactions, markets, positions, trades, clock, nfail>>

\* deductForTrade: findByUserId and the balance check
deductForTradeFind(p) ==
    LET currentBalance == wallets[proc[p].user].balance IN
    /\ proc[p].pc = "deduct_find"
    /\ IF insufficientBalance(currentBalance, proc[p].cost)
       THEN Finish(p, "executeTrade", "InsufficientFunds", 0)
       ELSE Goto(p, [pc |-> "deduct_update", currentBalance |-> currentBalance,
                     newBalance |-> currentBalance - proc[p].cost])
    /\ UNCHANGED <<wallets, transactions, markets, positions, trades, clock, nreq, nfail>>

\* deductForTrade: the wallets update
deductForTradeUpdate(p) ==
    /\ proc[p].pc = "deduct_update"
    /\ walletUpdate(p, "executeTrade", proc[p].user, "deduct_record")
    /\ UNCHANGED <<transactions, markets, positions, trades, clock, nreq>>

\* deductForTrade: recordTransaction; back in executeBuy, buyResult
deductForTradeRecord(p) ==
    LET buyResult == calculateBuyCost([yesShares |-> proc[p].yesShares,
                                       noShares |-> proc[p].noShares],
                                      proc[p].side, proc[p].shares)
    IN
    /\ proc[p].pc = "deduct_record"
    /\ recordTransaction(proc[p].user,
          transactionRow("trade", 0 - proc[p].cost, proc[p].currentBalance,
                         proc[p].newBalance, proc[p].market))
    /\ Goto(p, [pc |-> "shares_find", newYesShares |-> buyResult.newYesShares,
                newNoShares |-> buyResult.newNoShares])
    /\ UNCHANGED <<wallets, markets, positions, trades, clock, nreq>>

\* the shares a position row holds on the side opposite to `side`
sharesOfOtherSide(position, side) ==
    IF side = "yes" THEN position.no_shares ELSE position.yes_shares

\* the shares of one side a position row holds
sharesOf(position, side) ==
    IF side = "yes" THEN position.yes_shares ELSE position.no_shares

\* executeSell: findByUserAndMarket, the holding checks, calculateSellReturn
executeSellPosition(p) ==
    LET position == positions[proc[p].user][proc[p].market]
        state == [yesShares |-> proc[p].yesShares, noShares |-> proc[p].noShares]
        sellResult == calculateSellReturn(state, proc[p].side, proc[p].shares)
    IN
    /\ proc[p].pc = "sell_position"
    /\ IF ~position.exists \/ sharesOf(position, proc[p].side) < proc[p].shares
       THEN Finish(p, "executeTrade", "InsufficientShares", 0)
       ELSE IF sellExceedsMarket(state, proc[p].side, proc[p].shares)
       THEN Finish(p, "executeTrade", "InvalidTrade", 0)
       ELSE Goto(p, [pc |-> "add_find", cost |-> sellResult.amountReceived,
                     avgPrice |-> sellResult.avgPrice,
                     newYesShares |-> sellResult.newYesShares,
                     newNoShares |-> sellResult.newNoShares])
    /\ UNCHANGED <<wallets, transactions, markets, positions, trades, clock, nreq, nfail>>

\* addFromTrade: findByUserId
addFromTradeFind(p) ==
    LET currentBalance == wallets[proc[p].user].balance IN
    /\ proc[p].pc = "add_find"
    /\ Goto(p, [pc |-> "add_update", currentBalance |-> currentBalance,
                newBalance |-> currentBalance + proc[p].cost])
    /\ UNCHANGED <<wallets, transactions, markets, positions, trades, clock, nreq, nfail>>

\* addFromTrade: the wallets update
addFromTradeUpdate(p) ==
    /\ proc[p].pc = "add_update"
    /\ walletUpdate(p, "executeTrade", proc[p].user, "add_record")
    /\ UNCHANGED <<transactions, markets, positions, trades, clock, nreq>>

\* addFromTrade: recordTransaction
addFromTradeRecord(p) ==
    /\ proc[p].pc = "add_record"
    /\ recordTransaction(proc[p].user,
          transactionRow("trade", proc[p].cost, proc[p].currentBalance,
                         proc[p].newBalance, proc[p].market))
    /\ Goto(p, [pc |-> "shares_find"])
    /\ UNCHANGED <<wallets, markets, positions, trades, clock, nreq>>

\* MarketsService.updateShares: findById
updateSharesFind(p) ==
    /\ proc[p].pc = "shares_find"
    /\ Goto(p, [pc |-> "shares_update", volume |-> markets[proc[p].market].volume])
    /\ UNCHANGED <<wallets, transactions, markets, positions, trades, clock, nreq, nfail>>

\* MarketsService.updateShares: the columns it writes
updateSharesRow(market, yesShares, noShares, volume, volumeIncrease) ==
    [market EXCEPT !.yes_shares = yesShares, !.no_shares = noShares,
                   !.volume = volume + volumeIncrease]

\* MarketsService.updateShares: the markets update
updateSharesUpdate(p) ==
    /\ proc[p].pc = "shares_update"
    /\ \/ /\ markets' = [markets EXCEPT ![proc[p].market] =
                updateSharesRow(@, proc[p].newYesShares, proc[p].newNoShares,
                                proc[p].volume, proc[p].cost)]
          /\ Goto(p, [pc |-> "position_find"])
          /\ UNCHANGED nfail
       \/ /\ UNCHANGED markets
          /\ Fail(p, "executeTrade")
    /\ UNCHANGED <<wallets, transactions, positions, trades, clock, nreq>>

\* PositionsService.createOrUpdate: findByUserAndMarket
createOrUpdateFind(p) ==
    /\ proc[p].pc = "position_find"
    /\ Goto(p, [pc |-> "position_write",
                position |-> positions[proc[p].user][proc[p].market]])
    /\ UNCHANGED <<wallets, transactions, markets, positions, trades, clock, nreq, nfail>>

\* createOrUpdate, no row found: the row it inserts
positionInsertRow(side, sharesDelta, avgPrice, now) ==
    [exists |-> TRUE,
     yes_shares |-> IF side = "yes" THEN sharesDelta ELSE 0,
     no_shares |-> IF side = "yes" THEN 0 ELSE sharesDelta,
     avg_yes_price |-> IF side = "yes" THEN avgPrice ELSE 0,
     avg_no_price |-> IF side = "yes" THEN 0 ELSE avgPrice,
     updated_at |-> now]

\* createOrUpdate, row found: newShares of the traded side
positionNewShares(currentShares, sharesDelta, isBuy) ==
    IF isBuy THEN currentShares + sharesDelta ELSE currentShares - sharesDelta

\* (currentShares * currentAvgPrice + sharesDelta * avgPrice) / newShares
weightedAverage(currentShares, currentAvgPrice, sharesDelta, avgPrice, newShares) ==
    LET x == MulDivRem(currentShares, currentAvgPrice, newShares)
        y == MulDivRem(sharesDelta, avgPrice, newShares)
        r == x[2] + y[2]
    IN  x[1] + y[1] + (r \div newShares)
          + (IF 2 * (r % newShares) >= newShares THEN 1 ELSE 0)

\* newAvgPrice that a sell never resets
positionNewAvgPriceKept(currentShares, currentAvgPrice, sharesDelta, avgPrice, isBuy) ==
    LET newShares == positionNewShares(currentShares, sharesDelta, isBuy) IN
    IF isBuy
    THEN IF newShares > 0
         THEN weightedAverage(currentShares, currentAvgPrice, sharesDelta,
                              avgPrice, newShares)
         ELSE 0
    ELSE currentAvgPrice

\* createOrUpdate, row found: newAvgPrice of the traded side
positionNewAvgPrice(currentShares, currentAvgPrice, sharesDelta, avgPrice, isBuy) ==
    LET newShares == positionNewShares(currentShares, sharesDelta, isBuy) IN
    IF isBuy
    THEN IF newShares > 0
         THEN weightedAverage(currentShares, currentAvgPrice, sharesDelta,
                              avgPrice, newShares)
         ELSE 0
    ELSE IF newShares > 0 THEN currentAvgPrice ELSE 0

Max(a, b) == IF a >= b THEN a ELSE b

\* an update that writes back the whole row as it was read
positionUpdateWholeRow(row, position, side, sharesDelta, avgPrice, isBuy, now) ==
    LET currentShares == sharesOf(position, side)
        currentAvgPrice == IF side = "yes" THEN position.avg_yes_price
                           ELSE position.avg_no_price
        newShares == positionNewShares(currentShares, sharesDelta, isBuy)
        newAvgPrice == positionNewAvgPrice(currentShares, currentAvgPrice,
                                           sharesDelta, avgPrice, isBuy)
    IN  IF side = "yes"
        THEN [position EXCEPT !.yes_shares = Max(0, newShares),
                              !.avg_yes_price = newAvgPrice, !.updated_at = now]
        ELSE [position EXCEPT !.no_shares = Max(0, newShares),
                              !.avg_no_price = newAvgPrice, !.updated_at = now]

\* createOrUpdate, row found: the update writes the traded side's two
\* columns, computed from the row read earlier, and updated_at
positionUpdateRow(row, position, side, sharesDelta, avgPrice, isBuy, now) ==
    LET currentShares == sharesOf(position, side)
        currentAvgPrice == IF side = "yes" THEN position.avg_yes_price
                           ELSE position.avg_no_price
        newShares == positionNewShares(currentShares, sharesDelta, isBuy)
        newAvgPrice == positionNewAvgPrice(currentShares, currentAvgPrice,
                                           sharesDelta, avgPrice, isBuy)
    IN  IF side = "yes"
        THEN [row EXCEPT !.yes_shares = Max(0, newShares),
                         !.avg_yes_price = newAvgPrice, !.updated_at = now]
        ELSE [row EXCEPT !.no_shares = Max(0, newShares),
                         !.avg_no_price = newAvgPrice, !.updated_at = now]

\* PositionsService.createOrUpdate: the insert (UNIQUE(user_id, market_id)
\* rejects a second row) or the update, or an error
createOrUpdateWrite(p) ==
    LET u == proc[p].user
        m == proc[p].market
        isBuy == proc[p].type = "buy"
    IN
    /\ proc[p].pc = "position_write"
    /\ \/ /\ ~proc[p].position.exists
          /\ ~positions[u][m].exists
          /\ positions' = [positions EXCEPT ![u][m] =
                positionInsertRow(proc[p].side, proc[p].shares, proc[p].avgPrice,
                                  clock + 1)]
          /\ clock' = clock + 1
          /\ Goto(p, [pc |-> "record_trade"])
          /\ UNCHANGED nfail
       \/ /\ proc[p].position.exists
          /\ positions' = [positions EXCEPT ![u][m] =
                positionUpdateRow(@, proc[p].position, proc[p].side, proc[p].shares,
                                  proc[p].avgPrice, isBuy, clock + 1)]
          /\ clock' = clock + 1
          /\ Goto(p, [pc |-> "record_trade"])
          /\ UNCHANGED nfail
       \/ /\ ~proc[p].position.exists
          /\ positions[u][m].exists
          /\ Finish(p, "executeTrade", "Internal", 0)
          /\ UNCHANGED <<positions, clock, nfail>>
       \/ /\ UNCHANGED <<positions, clock>>
          /\ Fail(p, "executeTrade")
    /\ UNCHANGED <<wallets, transactions, markets, trades, nreq>>

\* cost * FEE_RATE / (1 + FEE_RATE), stored in DECIMAL(20, 6)
buyFee(cost) == (cost * FeePercent + (100 + FeePercent) \div 2) \div (100 + FeePercent)

\* amountReceived / (1 - FEE_RATE) - amountReceived, stored in DECIMAL(20, 6)
sellFee(amountReceived) ==
    (amountReceived * FeePercent + (100 - FeePercent) \div 2) \div (100 - FeePercent)

\* the row executeBuy / executeSell hand to recordTrade
tradeRow(r) ==
    [user_id |-> r.user, type |-> r.type, side |-> r.side, shares |-> r.shares,
     price |-> r.avgPrice, cost |-> r.cost,
     fee |-> IF r.type = "buy" THEN buyFee(r.cost) ELSE sellFee(r.cost),
     yes_shares_before |-> r.yesShares, no_shares_before |-> r.noShares,
     yes_shares_after |-> r.newYesShares, no_shares_after |-> r.newNoShares]

\* TradesService.recordTrade: the trades insert, then executeTrade returns
recordTrade(p) ==
    /\ proc[p].pc = "record_trade"
    /\ \/ /\ trades' = [trades EXCEPT ![proc[p].market] = Append(@, tradeRow(proc[p]))]
          /\ Finish(p, "executeTrade", "ok", 0)
          /\ UNCHANGED nfail
       \/ /\ UNCHANGED trades
          /\ Fail(p, "executeTrade")
    /\ UNCHANGED <<wallets, transactions, markets, positions, clock, nreq>>

\* --------------------------------------------------------- market lifecycle
\* the table with an entry that lets a resolved market be reopened
validTransitionsReopen(status) ==
    CASE status = "draft" -> {"active", "cancelled"}
      [] status = "active" -> {"suspended", "resolved", "cancelled"}
      [] status = "suspended" -> {"active", "resolved", "cancelled"}
      [] status = "resolved" -> {"active"}
      [] status = "cancelled" -> {}

\* MarketsService.updateStatus: the validTransitions table
validTransitions(status) ==
    CASE status = "draft" -> {"active", "cancelled"}
      [] status = "active" -> {"suspended", "resolved", "cancelled"}
      [] status = "suspended" -> {"active", "resolved", "cancelled"}
      [] status = "resolved" -> {}
      [] status = "cancelled" -> {}

\* updateStatus: findById and the transition check
updateStatus(p, id, status) ==
    /\ CanStart(p)
    /\ IF status \notin validTransitions(markets[id].status)
       THEN Reject("updateStatus", "InvalidTransition", Null, id)
       ELSE Begin(p, [pc |-> "status_update", market |-> id,
                      fromStatus |-> markets[id].status, status |-> status])
    /\ UNCHANGED <<wallets, transactions, markets, positions, trades, clock, nfail>>

\* a status update that also clears the volume of a market it cancels
updateStatusUpdateClearingVolume(p) ==
    /\ proc[p].pc = "status_update"
    /\ \/ /\ markets' = [markets EXCEPT
                ![proc[p].market].status = proc[p].status,
                ![proc[p].market].volume =
                    IF proc[p].status = "cancelled" THEN 0 ELSE @]
          /\ Finish(p, "updateStatus", "ok", 0)
          /\ UNCHANGED nfail
       \/ /\ UNCHANGED markets
          /\ Fail(p, "updateStatus")
    /\ UNCHANGED <<wallets, transactions, positions, trades, clock, nreq>>

\* updateStatus: the markets update ({status, updated_at})
updateStatusUpdate(p) ==
    /\ proc[p].pc = "status_update"
    /\ \/ /\ markets' = [markets EXCEPT ![proc[p].market].status = proc[p].status]
          /\ Finish(p, "updateStatus", "ok", 0)
          /\ UNCHANGED nfail
       \/ /\ UNCHANGED markets
          /\ Fail(p, "updateStatus")
    /\ UNCHANGED <<wallets, transactions, positions, trades, clock, nreq>>

\* MarketsService.resolveMarket: the statuses it accepts
resolvable(status) == status = "active" \/ status = "suspended"

\* AdminController.resolveMarket -> MarketsService.resolveMarket: findById
\* and the status check
resolveMarket(p, id, outcome) ==
    /\ CanStart(p)
    /\ IF ~resolvable(markets[id].status)
       THEN Reject("resolveMarket", "InvalidTransition", Null, id)
       ELSE Begin(p, [pc |-> "resolve_update", market |-> id, outcome |-> outcome])
    /\ UNCHANGED <<wallets, transactions, markets, positions, trades, clock, nfail>>

\* MarketsService.resolveMarket: the markets update; resolved_at is the time
\* of the write, which differs from request to request
resolveMarketUpdate(p) ==
    /\ proc[p].pc = "resolve_update"
    /\ \/ /\ markets' = [markets EXCEPT ![proc[p].market] =
                [@ EXCEPT !.status = "resolved", !.outcome = proc[p].outcome,
                          !.resolved_at = proc[p].rid]]
          /\ Goto(p, [pc |-> "settle_find"])
          /\ UNCHANGED nfail
       \/ /\ UNCHANGED markets
          /\ Fail(p, "resolveMarket")
    /\ UNCHANGED <<wallets, transactions, positions, trades, clock, nreq>>

\* --------------------------------------------------------------- settlement
\* winningShares with the two sides exchanged
winningSharesOtherSide(outcome, position) ==
    IF outcome = "yes" THEN position.no_shares ELSE position.yes_shares

\* settleMarket: winningShares of a position under an outcome
winningShares(outcome, position) ==
    IF outcome = "yes" THEN position.yes_shares ELSE position.no_shares

\* settleMarket: `if (winningShares > 0)`
isWinner(outcome, position) == winningShares(outcome, position) > 0

\* the for-loop of settleMarket up to its next await: positions without
\* winning shares are passed over
RECURSIVE skipToWinner(_, _)
skipToWinner(outcome, list) ==
    IF list = <<>> THEN list
    ELSE IF isWinner(outcome, Head(list)) THEN list
    ELSE skipToWinner(outcome, Tail(list))

\* PositionsService.findByMarket: the market's rows, latest updated_at first
RECURSIVE byUpdatedAtDesc(_, _, _)
byUpdatedAtDesc(table, marketId, users) ==
    IF users = {} THEN <<>>
    ELSE LET u == CHOOSE x \in users : \A y \in users :
                     table[x][marketId].updated_at >= table[y][marketId].updated_at
         IN  <<[user_id |-> u, yes_shares |-> table[u][marketId].yes_shares,
                no_shares |-> table[u][marketId].no_shares]>>
             \o byUpdatedAtDesc(table, marketId, users \ {u})

findByMarket(table, marketId) ==
    byUpdatedAtDesc(table, marketId, {u \in Users : table[u][marketId].exists})

\* settleMarket: findById and the `status !== "resolved" || !outcome` check
settleMarketFind(p) ==
    LET market == markets[proc[p].market] IN
    /\ proc[p].pc = "settle_find"
    /\ IF market.status # "resolved" \/ market.outcome = Null
       THEN Finish(p, "resolveMarket", "NotResolved", 0)
       ELSE Goto(p, [pc |-> "settle_positions", outcome |-> market.outcome])
    /\ UNCHANGED <<wallets, transactions, markets, positions, trades, clock, nreq, nfail>>

\* settleMarket: findByMarket, then the loop up to the first settlePosition;
\* the value returned is positions.length
settleMarketPositions(p) ==
    LET all == findByMarket(positions, proc[p].market)
        list == skipToWinner(proc[p].outcome, all)
    IN
    /\ proc[p].pc = "settle_positions"
    /\ IF list = <<>>
       THEN Finish(p, "resolveMarket", "ok", Len(all))
       ELSE Goto(p, [pc |-> "settle_wallet_find", positionList |-> list,
                     settled |-> Len(all)])
    /\ UNCHANGED <<wallets, transactions, markets, positions, trades, clock, nreq, nfail>>

\* settlePosition: findByUserId
settlePositionFind(p) ==
    LET position == Head(proc[p].positionList)
        currentBalance == wallets[position.user_id].balance
        amount == winningShares(proc[p].outcome, position)
    IN
    /\ proc[p].pc = "settle_wallet_find"
    /\ Goto(p, [pc |-> "settle_wallet_update", user |-> position.user_id,
                amount |-> amount, currentBalance |-> currentBalance,
                newBalance |-> currentBalance + amount])
    /\ UNCHANGED <<wallets, transactions, markets, positions, trades, clock, nreq, nfail>>

\* settlePosition: the wallets update; an error ends settleMarket
settlePositionUpdate(p) ==
    /\ proc[p].pc = "settle_wallet_update"
    /\ walletUpdate(p, "resolveMarket", proc[p].user, "settle_wallet_record")
    /\ UNCHANGED <<transactions, markets, positions, trades, clock, nreq>>

\* settlePosition: recordTransaction; the loop goes on to the next winner
settlePositionRecord(p) ==
    LET rest == skipToWinner(proc[p].outcome, Tail(proc[p].positionList)) IN
    /\ proc[p].pc = "settle_wallet_record"
    /\ recordTransaction(proc[p].user,
          transactionRow("settlement", proc[p].amount, proc[p].currentBalance,
                         proc[p].newBalance, proc[p].market))
    /\ IF rest = <<>>
       THEN Finish(p, "resolveMarket", "ok", proc[p].settled)
       ELSE Goto(p, [pc |-> "settle_wallet_find", positionList |-> rest])
    /\ UNCHANGED <<wallets, markets, positions, trades, clock, nreq>>

\* ------------------------------------------------------------ initial states
\* the tables after registration of the users, one deposit into each wallet
\* and the creation of the markets (status draft), possibly opened
freshTables(status) ==
    [wallets |-> [u \in Users |-> [balance |-> InitialDeposit, frozen_balance |-> 0]],
     transactions |-> [u \in Users |->
        <<transactionRow("deposit", InitialDeposit, 0, InitialDeposit, Null)>>],
     markets |-> [m \in Markets |->
        [status |-> status, outcome |-> Null, yes_shares |-> 0, no_shares |-> 0,
         volume |-> 0, resolved_at |-> 0]],
     positions |-> [u \in Users |-> [m \in Markets |-> NoPosition]],
     trades |-> [m \in Markets |-> <<>>],
     clock |-> 0]

\* the tables after one executeTrade (buy by shares) that ran alone and without
\* a persistence error from the tables t
executeBuyAlone(t, userId, marketId, side, shares) ==
    LET state == ammState(t.markets[marketId])
        quote == buyQuote(state, side, 0, shares)
        buyResult == calculateBuyCost(state, side, quote.shares)
        currentBalance == t.wallets[userId].balance
        newBalance == currentBalance - quote.cost
        position == t.positions[userId][marketId]
        locals == [user |-> userId, type |-> "buy", side |-> side,
                   shares |-> quote.shares, avgPrice |-> quote.avgPrice,
                   cost |-> quote.cost,
                   yesShares |-> state.yesShares, noShares |-> state.noShares,
                   newYesShares |-> buyResult.newYesShares,
                   newNoShares |-> buyResult.newNoShares]
    IN  [wallets |-> updateBalance(t.wallets, userId, newBalance),
         transactions |-> insertTransaction(t.transactions, userId,
            transactionRow("trade", 0 - quote.cost, currentBalance, newBalance, marketId)),
         markets |-> [t.markets EXCEPT ![marketId] =
            updateSharesRow(@, buyResult.newYesShares, buyResult.newNoShares,
                            @.volume, quote.cost)],
         positions |-> [t.positions EXCEPT ![userId][marketId] =
            IF position.exists
            THEN positionUpdateRow(@, position, side, quote.shares, quote.avgPrice,
                                   TRUE, t.clock + 1)
            ELSE positionInsertRow(side, quote.shares, quote.avgPrice, t.clock + 1)],
         trades |-> [t.trades EXCEPT ![marketId] = Append(@, tradeRow(locals))],
         clock |-> t.clock + 1]

\* u1 holds YES shares of m1
oneHolder == executeBuyAlone(freshTables("active"), "u1", "m1", "yes", 100 * Micro)

\* u1 holds YES shares and u2 holds NO shares of m1
twoHolders == executeBuyAlone(oneHolder, "u2", "m1", "no", 100 * Micro)

InitialTables == {freshTables("draft"), freshTables("active"), oneHolder, twoHolders}

Init ==
    /\ \E t \in InitialTables :
          /\ wallets = t.wallets
          /\ transactions = t.transactions
          /\ markets = t.markets
          /\ positions = t.positions
          /\ trades = t.trades
          /\ clock = t.clock
    /\ proc = [p \in Procs |-> Idle]
    /\ reply = NoReply
    /\ nreq = 0
    /\ nfail = 0

\* ------------------------------------------------------------ specification
\* the round-trips that follow the first one, by component
WalletSteps ==
    \/ \E p \in Procs : depositUpdate(p)
    \/ \E p \in Procs : depositRecord(p)
    \/ \E p \in Procs : withdrawUpdate(p)
    \/ \E p \in Procs : withdrawRecord(p)

TradeSteps ==
    \/ \E p \in Procs : deductForTradeFind(p)
    \/ \E p \in Procs : deductForTradeUpdate(p)
    \/ \E p \in Procs : deductForTradeRecord(p)
    \/ \E p \in Procs : executeSellPosition(p)
    \/ \E p \in Procs : addFromTradeFind(p)
    \/ \E p \in Procs : addFromTradeUpdate(p)
    \/ \E p \in Procs : addFromTradeRecord(p)
    \/ \E p \in Procs : updateSharesFind(p)
    \/ \E p \in Procs : updateSharesUpdate(p)
    \/ \E p \in Procs : createOrUpdateFind(p)
    \/ \E p \in Procs : createOrUpdateWrite(p)
    \/ \E p \in Procs : recordTrade(p)

SettleSteps ==
    \/ \E p \in Procs : resolveMarketUpdate(p)
    \/ \E p \in Procs : settleMarketFind(p)
    \/ \E p \in Procs : settleMarketPositions(p)
    \/ \E p \in Procs : settlePositionFind(p)
    \/ \E p \in Procs : settlePositionUpdate(p)
    \/ \E p \in Procs : settlePositionRecord(p)

\* the requests of the API, with every input
Requests ==
    \/ \E p \in Procs, u \in Users, a \in DepositAmounts : deposit(p, u, a)
    \/ \E p \in Procs, u \in Users, a \in WithdrawAmounts : withdraw(p, u, a)
    \/ \E p \in Procs, u \in Users, m \in Markets, s \in Sides,
          a \in BuyAmounts, n \in BuyShares, w \in BOOLEAN :
          executeTrade(p, u, m, "buy", s, a, n, w)
    \/ \E p \in Procs, u \in Users, m \in Markets, s \in Sides,
          n \in SellShares, w \in BOOLEAN :
          executeTrade(p, u, m, "sell", s, 0, n, w)
    \/ \E p \in Procs, m \in Markets, s \in Statuses : updateStatus(p, m, s)
    \/ \E p \in Procs, m \in Markets, o \in Sides : resolveMarket(p, m, o)

Steps ==
    \/ WalletSteps
    \/ TradeSteps
    \/ \E p \in Procs : updateStatusUpdate(p)
    \/ SettleSteps

\* requests arrive at any time and their handlers interleave
Next == Requests \/ Steps

Spec == Init /\ [][Next]_vars

\* no request is in progress
Quiet == \A p \in Procs : proc[p].pc = "idle"

\* requests arrive one at a time: each runs alone from arrival to return
SerialNext == (Quiet /\ Requests) \/ Steps

SpecSerial == Init /\ [][SerialNext]_vars

\* the administrative requests on the markets, interleaved
LifecycleNext ==
    \/ \E p \in Procs, m \in Markets, s \in Statuses : updateStatus(p, m, s)
    \/ \E p \in Procs, m \in Markets, o \in Sides : resolveMarket(p, m, o)
    \/ \E p \in Procs : updateStatusUpdate(p)
    \/ SettleSteps

SpecLifecycle == Init /\ [][LifecycleNext]_vars

\* every operation that writes a wallet, on one user's wallet, interleaved:
\* the market is open and the user has the initial deposit
LedgerInit ==
    /\ wallets = freshTables("active").wallets
    /\ transactions = freshTables("active").transactions
    /\ markets = freshTables("active").markets
    /\ positions = freshTables("active").positions
    /\ trades = freshTables("active").trades
    /\ clock = 0
    /\ proc = [p \in Procs |-> Idle]
    /\ reply = NoReply
    /\ nreq = 0
    /\ nfail = 0

LedgerNext ==
    \/ \E p \in Procs, a \in DepositAmounts : deposit(p, "u1", a)
    \/ \E p \in Procs, a \in WithdrawAmounts : withdraw(p, "u1", a)
    \/ \E p \in Procs, m \in Markets, a \in BuyAmounts, n \in BuyShares :
          executeTrade(p, "u1", m, "buy", "yes", a, n, TRUE)
    \/ \E p \in Procs, m \in Markets, n \in SellShares :
          executeTrade(p, "u1", m, "sell", "yes", 0, n, TRUE)
    \/ \E p \in Procs, m \in Markets : resolveMarket(p, m, "yes")
    \/ WalletSteps
    \/ TradeSteps
    \/ SettleSteps

SpecLedger == LedgerInit /\ [][LedgerNext]_vars

\* -------------------------------------------------------------- properties
\* the rows of a wallet's transactions that settle market m
SettlementRows(rows, m) ==
    SelectSeq(rows, LAMBDA r : r.type = "settlement" /\ r.reference_id = m)

\* the rows of a wallet's transactions that a trade on market m wrote
TradeTransactionRows(rows, m) ==
    SelectSeq(rows, LAMBDA r : r.type = "trade" /\ r.reference_id = m)

\* the Trade rows of market m that belong to user u
TradeRowsOf(u, m) == SelectSeq(trades[m], LAMBDA t : t.user_id = u)

\* the shares of a position that win under outcome o
WinningShares(o, position) ==
    IF o = "yes" THEN position.yes_shares ELSE position.no_shares

\* the sum of cost over Trade rows
RECURSIVE SumCost(_)
SumCost(rows) == IF rows = <<>> THEN 0 ELSE Head(rows).cost + SumCost(Tail(rows))

\* every trade that wrote anything wrote everything: each user has on each
\* market as many trade WalletTransactions as Trade rows, and a position
\* exactly if there is such a trade
TradesComplete ==
    \A u \in Users, m \in Markets :
        /\ Len(TradeTransactionRows(transactions[u], m)) = Len(TradeRowsOf(u, m))
        /\ positions[u][m].exists <=> Len(TradeRowsOf(u, m)) > 0

\* C1: whenever no request is in progress (and no persistence call has
\* failed), every wallet's transactions are contiguous in creation order,
\* b.balance_before = a.balance_after for consecutive rows (a, b), and the
\* wallet's balance is the balance_after of its last transaction; this also
\* after two ledger operations ran concurrently on the wallet.
WalletChainContiguous ==
    (Quiet /\ nfail = 0) =>
        \A u \in Users :
            LET rows == transactions[u] IN
            /\ \A i \in 1..(Len(rows) - 1) :
                  rows[i + 1].balance_before = rows[i].balance_after
            /\ Len(rows) > 0 => wallets[u].balance = rows[Len(rows)].balance_after

\* C2: whenever no request is in progress (no persistence call has failed
\* and no trade was left half done),
\* consecutive Trade rows (a, b) of a market satisfy b.q_before = a.q_after on
\* both sides, also after two executeTrade calls ran concurrently on the
\* market.
TradeChainContiguous ==
    (Quiet /\ nfail = 0 /\ TradesComplete) =>
        \A m \in Markets : \A i \in 1..(Len(trades[m]) - 1) :
            /\ trades[m][i + 1].yes_shares_before = trades[m][i].yes_shares_after
            /\ trades[m][i + 1].no_shares_before = trades[m][i].no_shares_after

\* C3: a trade is all or nothing, also when a persistence call fails after
\* the wallet was debited or credited: whenever no request is in progress,
\* each user has on each market as many trade WalletTransactions as Trade
\* rows, and a position exactly if there is such a trade.
TradeAllOrNothing == Quiet => TradesComplete

\* C4: whenever no request is in progress (no persistence call has failed
\* and no trade was left half done),
\* a market's q_yes and q_no are the q_after of its latest Trade row
\* (0 without trades) and its volume is the sum of cost over its Trade rows;
\* two simultaneous buys thus add both costs to the volume.
MarketMatchesTrades ==
    (Quiet /\ nfail = 0 /\ TradesComplete) =>
        \A m \in Markets :
            LET n == Len(trades[m]) IN
            /\ markets[m].yes_shares = IF n = 0 THEN 0 ELSE trades[m][n].yes_shares_after
            /\ markets[m].no_shares = IF n = 0 THEN 0 ELSE trades[m][n].no_shares_after
            /\ markets[m].volume = SumCost(trades[m])

\* C5: a market is resolved exactly if its outcome is yes or no and its
\* resolved_at is set, and an outcome or resolved_at once written is never
\* written again.
ResolvedIffOutcomeOnce ==
    /\ [](\A m \in Markets :
            markets[m].status = "resolved"
              <=> (markets[m].outcome \in Sides /\ markets[m].resolved_at # 0))
    /\ [][\A m \in Markets :
            markets[m].outcome # Null =>
                /\ markets'[m].outcome = markets[m].outcome
                /\ markets'[m].resolved_at = markets[m].resolved_at]_vars

\* C6: once the request that resolved a market is over (no request is in
\* progress), the market has an outcome and every position with winning
\* shares has exactly one settlement credit for the market; whichever admin
\* operation resolved it, and also when a credit of the settlement loop failed.
WinnersCreditedOnce ==
    Quiet =>
        \A m \in Markets :
            markets[m].status = "resolved" =>
                /\ markets[m].outcome \in Sides
                /\ \A u \in Users :
                      (/\ positions[u][m].exists
                       /\ WinningShares(markets[m].outcome, positions[u][m]) > 0)
                      => Len(SettlementRows(transactions[u], m)) = 1

\* a handler is inside resolve-and-settle
SettlePcs ==
    {"resolve_update", "settle_find", "settle_positions", "settle_wallet_find",
     "settle_wallet_update", "settle_wallet_record"}

\* handler p performs the wallet credit of settlePosition in this step
SettlementCredit(p) ==
    proc[p].pc = "settle_wallet_update" /\ proc'[p].pc = "settle_wallet_record"

Settled(m) ==
    /\ markets[m].status = "resolved"
    /\ markets[m].outcome \in Sides
    /\ \E u \in Users : SettlementRows(transactions[u], m) # <<>>
    /\ \A u \in Users :
          (/\ positions[u][m].exists
           /\ WinningShares(markets[m].outcome, positions[u][m]) > 0)
          => Len(SettlementRows(transactions[u], m)) >= 1

\* C8: once a market is settled, no step of any resolve request credits a
\* wallet for it or appends a settlement transaction for it.
SettleIdempotent ==
    [][\A m \in Markets :
        Settled(m) =>
            /\ \A u \in Users :
                  Len(SettlementRows(transactions'[u], m))
                    = Len(SettlementRows(transactions[u], m))
            /\ \A p \in Procs : proc[p].market = m => ~SettlementCredit(p)
      ]_vars

\* a handler is about to write the balance it computed for a debit
DebitPcs == {"withdraw_update", "deduct_update"}

\* C9: balance and frozen_balance of every wallet are never negative, and the
\* balance a withdraw or deductForTrade is about to write, computed from the
\* balance it read earlier, is never negative either - also when several of
\* them interleave on one wallet between read and write.
BalancesNonNegative ==
    /\ \A u \in Users : wallets[u].balance >= 0 /\ wallets[u].frozen_balance >= 0
    /\ \A p \in Procs : proc[p].pc \in DebitPcs => proc[p].newBalance >= 0

\* two debits of one wallet interleaved: one has written its balance, the
\* other, which read the balance before that write, has yet to write, and
\* what is left no longer covers its amount
StaleDebitPending ==
    \E p \in Procs :
        /\ proc[p].pc \in DebitPcs
        /\ wallets[proc[p].user].balance < proc[p].currentBalance
        /\ wallets[proc[p].user].balance
              < proc[p].currentBalance - proc[p].newBalance

\* the transitions of section "Market Lifecycle"
AllowedTransitions(s) ==
    CASE s = "draft" -> {"active", "cancelled"}
      [] s = "active" -> {"suspended", "resolved", "cancelled"}
      [] s = "suspended" -> {"active", "resolved", "cancelled"}
      [] s = "resolved" -> {}
      [] s = "cancelled" -> {}

\* C10: updateStatus admits a request for status t on a market it finds in
\* status s only if t is allowed from s, and then writes t and nothing else;
\* a request that fails with InvalidTransition changes no market record.
StatusTransitionsAllowed ==
    [][\A p \in Procs :
        /\ (proc[p].pc = "idle" /\ proc'[p].pc = "status_update") =>
              /\ proc'[p].fromStatus = markets[proc'[p].market].status
              /\ proc'[p].status \in AllowedTransitions(proc'[p].fromStatus)
              /\ markets' = markets
        /\ (proc[p].pc = "status_update" /\ proc'[p].pc = "idle"
                                          /\ markets' # markets) =>
              /\ proc[p].status \in AllowedTransitions(proc[p].fromStatus)
              /\ markets' = [markets EXCEPT ![proc[p].market].status = proc[p].status]
        /\ (reply'.op = "updateStatus" /\ reply'.error = "InvalidTransition") =>
              /\ markets' = markets
              /\ proc' = proc
      ]_vars

\* an updateStatus request on a resolved market has failed with
\* InvalidTransition
ResolvedMarketRefusesStatus ==
    /\ reply.op = "updateStatus"
    /\ reply.error = "InvalidTransition"
    /\ markets[reply.market].status = "resolved"

\* ------------------------------------------------- properties of requests
\* the tables a request can write
tables == <<wallets, transactions, markets, positions, trades>>

\* C11: a buy writes nothing before deductForTrade has compared its cost with
\* the balance, and when the cost exceeds the balance that deductForTrade
\* reads - and only then - the request ends there with InsufficientFunds:
\* wallet, market, positions, trades and wallet transactions are as they were.
BuyBeyondBalanceRefused ==
    [][\A p \in Procs :
        /\ (proc[p].pc = "idle" /\ proc'[p].pc = "deduct_find") =>
              UNCHANGED tables
        /\ (proc[p].pc = "deduct_find" /\ proc'[p].pc # "deduct_find") =>
              /\ UNCHANGED tables
              /\ (proc[p].cost > wallets[proc[p].user].balance)
                    <=> /\ proc'[p].pc = "idle"
                        /\ reply'.op = "executeTrade"
                        /\ reply'.error = "InsufficientFunds"
                        /\ reply'.user = proc[p].user
      ]_vars

\* a buy of 100 shares by the user whose balance no longer covers its cost has
\* been refused, and the user's only trade is still the earlier one
BuyRefusedForFunds ==
    /\ reply.op = "executeTrade"
    /\ reply.error = "InsufficientFunds"
    /\ Quiet
    /\ wallets[reply.user].balance < 63 * Micro
    /\ Len(trades[reply.market]) = 1

\* C12: executeTrade on a market whose status is not active answers
\* MarketClosed and leaves every table and every handler as it was: a request
\* either is refused at once or begins its handler, a trade refused at once
\* on a market that is not active is refused with MarketClosed whatever its
\* other inputs are, and a handler only ever begins on an active market.
ClosedMarketRefusesTrades ==
    [][/\ (/\ reply'.op = "executeTrade"
            /\ proc' = proc
            /\ markets[reply'.market].status # "active") =>
              reply'.error = "MarketClosed"
       /\ \A p \in Procs :
             (proc[p].pc = "idle" /\ proc'[p].pc \in {"deduct_find", "sell_position"}) =>
                 markets[proc'[p].market].status = "active"
       /\ reply'.error = "MarketClosed" =>
              /\ UNCHANGED <<tables, proc, nreq>>
              /\ markets[reply'.market].status # "active"
      ]_vars

\* a trade has been refused on a market that holds trades and was suspended
TradeRefusedOnSuspendedMarket ==
    /\ reply.op = "executeTrade"
    /\ reply.error = "MarketClosed"
    /\ markets[reply.market].status = "suspended"
    /\ trades[reply.market] # <<>>

\* the trades of every user with every input, one request at a time
TradeRequests ==
    \/ \E p \in Procs, u \in Users, m \in Markets, s \in Sides,
          a \in BuyAmounts, n \in BuyShares, w \in BOOLEAN :
          executeTrade(p, u, m, "buy", s, a, n, w)
    \/ \E p \in Procs, u \in Users, m \in Markets, s \in Sides,
          n \in SellShares, w \in BOOLEAN :
          executeTrade(p, u, m, "sell", s, 0, n, w)

SerialTradesNext == (Quiet /\ TradeRequests) \/ TradeSteps

SpecSerialTrades == Init /\ [][SerialTradesNext]_vars

\* the shares of side s that user u holds in market m, none without a position
Holding(u, m, s) ==
    IF ~positions[u][m].exists THEN 0
    ELSE IF s = "yes" THEN positions[u][m].yes_shares
    ELSE positions[u][m].no_shares

\* C13: a sell writes nothing before it has loaded the caller's position, and
\* when that position holds fewer shares of the side than the request sells,
\* or does not exist - and only then - the request ends there with
\* InsufficientShares and every table is as it was; so a sell that goes on
\* held at least the shares it sells when it was checked.
SellBeyondHoldingRefused ==
    [][/\ \A p \in Procs :
          /\ (proc[p].pc = "idle" /\ proc'[p].pc = "sell_position") =>
                UNCHANGED tables
          /\ (proc[p].pc = "sell_position" /\ proc'[p].pc # "sell_position") =>
                /\ UNCHANGED tables
                /\ (Holding(proc[p].user, proc[p].market, proc[p].side) < proc[p].shares)
                      <=> /\ proc'[p].pc = "idle"
                          /\ reply'.op = "executeTrade"
                          /\ reply'.error = "InsufficientShares"
                          /\ reply'.user = proc[p].user
       /\ reply'.error = "InsufficientShares" => UNCHANGED tables
      ]_vars

\* a sell of 100 shares has been refused for a user who holds shares, but
\* fewer than 100 on either side
SellRefusedForShares ==
    /\ reply.op = "executeTrade"
    /\ reply.error = "InsufficientShares"
    /\ Holding(reply.user, reply.market, "yes") > 0
    /\ Holding(reply.user, reply.market, "yes") < 100 * Micro
    /\ Holding(reply.user, reply.market, "no") < 100 * Micro

\* C14: a buy on an open market that supplies both amount and shares, or
\* neither, is refused with InvalidTrade and writes nothing (0 stands for a
\* field that is absent from the request).
BuyNeedsExactlyOneOfAmountAndShares ==
    [][\A p \in Procs, u \in Users, m \in Markets, s \in Sides,
          a \in BuyAmounts, n \in BuyShares :
          (/\ markets[m].status = "active"
           /\ (a # 0) = (n # 0)
           /\ executeTrade(p, u, m, "buy", s, a, n, TRUE)) =>
              /\ reply'.op = "executeTrade"
              /\ reply'.error = "InvalidTrade"
              /\ UNCHANGED <<tables, proc>>
      ]_vars

\* ------------------------------------------------------- the wallet, serial
\* the amounts of a withdrawal, the whole initial balance among them
WalletWithdrawAmounts == WithdrawAmounts \cup {InitialDeposit}

\* deposits and withdrawals on the wallets, one request at a time
WalletNext ==
    \/ /\ Quiet
       /\ \/ \E p \in Procs, u \in Users, a \in DepositAmounts : deposit(p, u, a)
          \/ \E p \in Procs, u \in Users, a \in WalletWithdrawAmounts : withdraw(p, u, a)
    \/ WalletSteps

SpecWallet == Init /\ [][WalletNext]_vars

RECURSIVE SumAmount(_)
SumAmount(rows) ==
    IF rows = <<>> THEN 0 ELSE rows[1].amount + SumAmount(Tail(rows))

\* C16: whenever no request is in progress, the amounts of the rows of each
\* wallet's log add up to the wallet's balance (a wallet is created with
\* balance 0, so this is the balance minus the initial balance), persistence
\* errors included: no balance changes without its row.
LedgerSumsToBalance ==
    Quiet => \A u \in Users : SumAmount(transactions[u]) = wallets[u].balance

\* the round-trips that append the row of a credit and the row of a debit
CreditRecordPcs == {"deposit_record", "add_record", "settle_wallet_record"}
DebitRecordPcs == {"withdraw_record", "deduct_record"}

\* C17: every row of every wallet's log has balance_after = balance_before +
\* amount; the log only grows, one row at a time, and the row a deposit, an
\* addFromTrade or a settlePosition appends has a positive amount while the
\* row a withdraw or a deductForTrade appends has a negative one.
TransactionRowsBalance ==
    [][\A u \in Users :
        /\ \A i \in 1..Len(transactions'[u]) :
              transactions'[u][i].balance_after
                 = transactions'[u][i].balance_before + transactions'[u][i].amount
        /\ transactions'[u] # transactions[u] =>
              /\ Len(transactions'[u]) = Len(transactions[u]) + 1
              /\ SubSeq(transactions'[u], 1, Len(transactions[u])) = transactions[u]
              /\ LET row == transactions'[u][Len(transactions'[u])] IN
                 \E p \in Procs :
                    /\ proc[p].user = u
                    /\ proc'[p].pc # proc[p].pc
                    /\ \/ /\ proc[p].pc \in CreditRecordPcs
                          /\ row.amount > 0
                          /\ row.type \in {"deposit", "trade", "settlement"}
                       \/ /\ proc[p].pc \in DebitRecordPcs
                          /\ row.amount < 0
                          /\ row.type \in {"withdraw", "trade"}
      ]_vars

\* the log of a wallet holds the debit of a buy and the credit of a sell or of
\* a settlement
DebitAndCreditRowsLogged ==
    \E u \in Users :
       /\ \E i \in 1..Len(transactions[u]) :
             transactions[u][i].type = "trade" /\ transactions[u][i].amount < 0
       /\ \E i \in 1..Len(transactions[u]) :
             \/ transactions[u][i].type = "trade" /\ transactions[u][i].amount > 0
             \/ transactions[u][i].type = "settlement" /\ transactions[u][i].amount > 0

\* the average price a position stores for side s
AvgPrice(position, s) ==
    IF s = "yes" THEN position.avg_yes_price ELSE position.avg_no_price

\* the shares a position stores for side s
Shares(position, s) ==
    IF s = "yes" THEN position.yes_shares ELSE position.no_shares

\* C18: every position holds no negative shares and, on each side, average
\* price 0 whenever it holds 0 shares of that side; the position write of a
\* sell leaves the shares it found minus the shares sold, and the average
\* price it found if shares remain or 0 if none do, and leaves the other side
\* of the position alone.
PositionsWellFormed ==
    /\ [](\A u \in Users, m \in Markets :
            positions[u][m].exists =>
               \A s \in Sides :
                  /\ Shares(positions[u][m], s) >= 0
                  /\ Shares(positions[u][m], s) = 0 => AvgPrice(positions[u][m], s) = 0)
    /\ [][\A p \in Procs :
            (/\ proc[p].pc = "position_write"
             /\ proc[p].type = "sell"
             /\ proc'[p].pc = "record_trade") =>
                LET old == positions[proc[p].user][proc[p].market]
                    new == positions'[proc[p].user][proc[p].market]
                    s == proc[p].side
                    o == IF s = "yes" THEN "no" ELSE "yes"
                IN  /\ old.exists /\ new.exists
                    /\ Shares(new, s) = Shares(old, s) - proc[p].shares
                    /\ Shares(new, s) > 0 => AvgPrice(new, s) = AvgPrice(old, s)
                    /\ Shares(new, s) = 0 => AvgPrice(new, s) = 0
                    /\ Shares(new, o) = Shares(old, o)
                    /\ AvgPrice(new, o) = AvgPrice(old, o)
         ]_vars

\* a user who bought one side and then sold all of it holds a position with 0
\* shares and average price 0 on that side
PositionSoldOut ==
    \E u \in Users, m \in Markets, s \in Sides :
       /\ positions[u][m].exists
       /\ Shares(positions[u][m], s) = 0
       /\ AvgPrice(positions[u][m], s) = 0
       /\ \E i \in 1..Len(trades[m]) :
             /\ trades[m][i].user_id = u
             /\ trades[m][i].type = "sell"
             /\ trades[m][i].side = s

\* ------------------------------------------------------------ a late market
\* the tables after one deposit that ran alone and without a persistence
\* error from the tables t
depositAlone(t, userId, amount) ==
    LET currentBalance == t.wallets[userId].balance
        newBalance == currentBalance + amount
    IN  [t EXCEPT !.wallets = updateBalance(@, userId, newBalance),
                  !.transactions = insertTransaction(@, userId,
                      transactionRow("deposit", amount, currentBalance, newBalance, Null))]

\* u1 has deposited 400 more and then bought 100 YES shares four times, each
\* request running alone: YES now trades near 1
LateInit ==
    /\ \E t0 \in {depositAlone(freshTables("active"), "u1", 400 * Micro)} :
       \E t1 \in {executeBuyAlone(t0, "u1", "m1", "yes", 100 * Micro)} :
       \E t2 \in {executeBuyAlone(t1, "u1", "m1", "yes", 100 * Micro)} :
       \E t3 \in {executeBuyAlone(t2, "u1", "m1", "yes", 100 * Micro)} :
       \E t4 \in {executeBuyAlone(t3, "u1", "m1", "yes", 100 * Micro)} :
          /\ wallets = t4.wallets
          /\ transactions = t4.transactions
          /\ markets = t4.markets
          /\ positions = t4.positions
          /\ trades = t4.trades
          /\ clock = t4.clock
    /\ proc = [p \in Procs |-> Idle]
    /\ reply = NoReply
    /\ nreq = 0
    /\ nfail = 0

\* the trades of every user on that market, interleaved
LateNext ==
    \/ \E p \in Procs, u \in Users, m \in Markets, s \in Sides,
          a \in BuyAmounts, n \in BuyShares :
          executeTrade(p, u, m, "buy", s, a, n, TRUE)
    \/ \E p \in Procs, u \in Users, m \in Markets, s \in Sides, n \in SellShares :
          executeTrade(p, u, m, "sell", s, 0, n, TRUE)
    \/ TradeSteps

SpecLateMarket == LateInit /\ [][LateNext]_vars

\* C19: for every position and each side with shares > 0, the stored average
\* price lies between 0 and 1 (looked at when no request is in progress and no
\* persistence error has occurred).
AvgPriceWithinUnit ==
    (Quiet /\ nfail = 0) =>
    \A u \in Users, m \in Markets, s \in Sides :
       (positions[u][m].exists /\ Shares(positions[u][m], s) > 0) =>
          /\ AvgPrice(positions[u][m], s) >= 0
          /\ AvgPrice(positions[u][m], s) <= Micro

\* rows i and i + 1 of the trades of market m are a buy and then a sell of
\* the same shares on the same side, the sell starting from the state the buy
\* left: no other trade moved the market in between
BuyThenSell(m, i) ==
    LET a == trades[m][i]
        b == trades[m][i + 1]
    IN  /\ a.type = "buy"
        /\ b.type = "sell"
        /\ a.side = b.side
        /\ a.shares = b.shares
        /\ b.yes_shares_before = a.yes_shares_after
        /\ b.no_shares_before = a.no_shares_after

\* C20: a sell of the shares a buy has just bought, on the same side and with
\* no other trade in between, leaves (q_yes, q_no) exactly as they were before
\* the buy: the market write of a sell that finds the market as the latest
\* Trade row, a buy of the same shares on the same side, left it writes that
\* buy's q_before, and the sell's Trade row ends where the buy's row began.
SellUndoesBuy ==
    /\ [](\A m \in Markets :
            \A i \in 1..(Len(trades[m]) - 1) :
               BuyThenSell(m, i) =>
                  /\ trades[m][i + 1].yes_shares_after = trades[m][i].yes_shares_before
                  /\ trades[m][i + 1].no_shares_after = trades[m][i].no_shares_before)
    /\ [][\A p \in Procs :
            LET m == proc[p].market IN
            (/\ proc[p].pc = "shares_update"
             /\ proc[p].type = "sell"
             /\ proc'[p].pc = "position_find"
             /\ trades[m] # <<>>) =>
                LET a == trades[m][Len(trades[m])] IN
                (/\ a.type = "buy"
                 /\ a.side = proc[p].side
                 /\ a.shares = proc[p].shares
                 /\ a.yes_shares_after = markets[m].yes_shares
                 /\ a.no_shares_after = markets[m].no_shares) =>
                    /\ markets'[m].yes_shares = a.yes_shares_before
                    /\ markets'[m].no_shares = a.no_shares_before
         ]_vars

\* a buy of 100 shares and then a sell of 100 shares of the same side have
\* both returned on a market that held shares before
BoughtThenSold ==
    /\ Quiet
    /\ \E m \in Markets :
          /\ Len(trades[m]) >= 2
          /\ BuyThenSell(m, Len(trades[m]) - 1)
          /\ trades[m][Len(trades[m]) - 1].yes_shares_before > 0
          /\ markets[m].yes_shares = trades[m][Len(trades[m]) - 1].yes_shares_before

\* ------------------------------------------------- properties over time
\* C21: once a market's status is resolved or cancelled, no step of any
\* request changes that status.
TerminalStatusKept ==
    [][\A m \in Markets :
          markets[m].status \in {"resolved", "cancelled"} =>
             markets'[m].status = markets[m].status
      ]_vars

\* the users whose position on market m has winning shares under outcome o
Winners(m, o) ==
    {u \in Users : positions[u][m].exists /\ WinningShares(o, positions[u][m]) > 0}

\* C22: when resolve-and-settle returns, the count it returns is the number of
\* positions on the market that had winning shares and were credited (looked
\* at when no persistence error has occurred).
SettledCountIsWinners ==
    (reply.op = "resolveMarket" /\ reply.error = "ok" /\ nfail = 0) =>
        reply.value = Cardinality(Winners(reply.market, markets[reply.market].outcome))

\* the shares of side s held over all positions on market m
SharesHeld(m, s) ==
    LET RECURSIVE Sum(_)
        Sum(us) == IF us = {} THEN 0
                   ELSE LET u == CHOOSE x \in us : TRUE
                        IN  Holding(u, m, s) + Sum(us \ {u})
    IN  Sum(Users)

\* C23: whenever no trade is in progress, with trades run one at a time, each
\* market's yes_shares and no_shares are the sums of the yes and no shares
\* over the positions on it.
MarketIsSharesHeld ==
    Quiet => \A m \in Markets :
                /\ markets[m].yes_shares = SharesHeld(m, "yes")
                /\ markets[m].no_shares = SharesHeld(m, "no")

\* the tolerance of the inversion on the cost before fee, 0.0001, taken to the
\* cost with fee: 0.0001 * (1 + fee rate)
InversionTolerance == ((Micro \div 10000) * (100 + FeePercent)) \div 100

\* C24: every buy Trade row carries as cost, which is what the wallet was
\* debited, the cost with fee of the row's shares from the row's state before
\* the trade, within the tolerance of the inversion; also when the bought side
\* is so cheap that amount / price is beyond the bisection's upper end.
BuyCostIsLmsrCost ==
    \A m \in Markets : \A i \in 1..Len(trades[m]) :
       LET row == trades[m][i]
           before == [yesShares |-> row.yes_shares_before,
                      noShares |-> row.no_shares_before]
           lmsr == calculateBuyCost(before, row.side, row.shares).cost
       IN  row.type = "buy" =>
              /\ row.cost - lmsr <= InversionTolerance
              /\ lmsr - row.cost <= InversionTolerance

\* ------------------------------------------------- one user, both sides
\* m1 is active, and u1 holds nothing or holds YES shares
OneUserInit ==
    /\ \E t \in {freshTables("active"), oneHolder} :
          /\ wallets = t.wallets
          /\ transactions = t.transactions
          /\ markets = t.markets
          /\ positions = t.positions
          /\ trades = t.trades
          /\ clock = t.clock
    /\ proc = [p \in Procs |-> Idle]
    /\ reply = NoReply
    /\ nreq = 0
    /\ nfail = 0

\* the trades of u1 by shares on either side, interleaved
OneUserNext ==
    \/ \E p \in Procs, m \in Markets, s \in Sides, n \in BuyShares :
          executeTrade(p, "u1", m, "buy", s, 0, n, TRUE)
    \/ \E p \in Procs, m \in Markets, s \in Sides, n \in SellShares :
          executeTrade(p, "u1", m, "sell", s, 0, n, TRUE)
    \/ TradeSteps

SpecOneUser == OneUserInit /\ [][OneUserNext]_vars

Opposite(s) == IF s = "yes" THEN "no" ELSE "yes"

\* the stored average price of side s of user u in market m, 0 without a row
HoldingPrice(u, m, s) ==
    IF positions[u][m].exists THEN AvgPrice(positions[u][m], s) ELSE 0

\* C25: the step of a trade on side s that inserts or updates the position
\* leaves the stored shares and average price of the other side as they were
\* (0 where there was no row), also while another trade of the user is in
\* progress on the other side.
OppositeSideKept ==
    [][\A p \in Procs, u \in Users, m \in Markets, s \in Sides :
          (/\ proc[p].pc = "position_write" /\ proc'[p].pc # "position_write"
           /\ proc[p].user = u /\ proc[p].market = m /\ proc[p].side = s) =>
             /\ Holding(u, m, Opposite(s))' = Holding(u, m, Opposite(s))
             /\ HoldingPrice(u, m, Opposite(s))' = HoldingPrice(u, m, Opposite(s))
      ]_vars

\* two trades of one user on opposite sides have both written the position,
\* and the row that the one read before its write is not what is stored for
\* the other's side: the other wrote in between
OppositeSidesWrittenConcurrently ==
    \E p, q \in Procs :
       /\ p # q
       /\ proc[p].pc = "record_trade" /\ proc[q].pc = "record_trade"
       /\ proc[p].user = proc[q].user /\ proc[p].market = proc[q].market
       /\ proc[q].side = Opposite(proc[p].side)
       /\ proc[q].position.exists
       /\ Shares(proc[q].position, proc[p].side)
             # Holding(proc[p].user, proc[p].market, proc[p].side)

\* ------------------------------------------------- trades against resolution
\* C26: from a state where a market is resolved, no step changes its
\* yes_shares, no_shares or volume, a position on it or its Trade rows.
ResolvedMarketFrozen ==
    [][\A m \in Markets :
          markets[m].status = "resolved" =>
             /\ markets'[m].yes_shares = markets[m].yes_shares
             /\ markets'[m].no_shares = markets[m].no_shares
             /\ markets'[m].volume = markets[m].volume
             /\ \A u \in Users : positions'[u][m] = positions[u][m]
             /\ trades'[m] = trades[m]
      ]_vars

\* ------------------------------------------------- races on one row
\* C27: for each wallet, the signed amounts of its transactions never sum to
\* less than 0: the debits recorded never exceed the credits recorded, the
\* first deposit among them (looked at while no persistence call has failed,
\* so that every change of a balance has its row).
DebitsWithinCredits ==
    nfail = 0 => \A u \in Users : SumAmount(transactions[u]) >= 0

\* the shares over the rows of the given type and side among rows
RECURSIVE SumShares(_, _, _)
SumShares(rows, type, side) ==
    IF rows = <<>> THEN 0
    ELSE (IF Head(rows).type = type /\ Head(rows).side = side
          THEN Head(rows).shares ELSE 0) + SumShares(Tail(rows), type, side)

\* C28: for each user, market and side, the shares over the user's sell Trade
\* rows never exceed the shares over their buy Trade rows (looked at when no
\* request is in progress and no persistence call has failed, so that every
\* trade has its row).
SoldWithinBought ==
    (Quiet /\ nfail = 0) =>
    \A u \in Users, m \in Markets, s \in Sides :
       SumShares(TradeRowsOf(u, m), "sell", s) <= SumShares(TradeRowsOf(u, m), "buy", s)

\* C29: whenever no request is in progress (and no persistence call has
\* failed), each wallet has at most one settlement credit per market, and has
\* one only if its position wins under the outcome the market now has: nobody
\* is paid for an outcome that is not the final one.
OnlyFinalOutcomePaid ==
    (Quiet /\ nfail = 0) =>
    \A m \in Markets, u \in Users :
       LET n == Len(SettlementRows(transactions[u], m)) IN
       /\ n <= 1
       /\ n = 1 => /\ markets[m].outcome \in Sides
                   /\ positions[u][m].exists
                   /\ WinningShares(markets[m].outcome, positions[u][m]) > 0

\* ------------------------------------------------- what a status change keeps
\* C30: a step of updateStatus changes nothing but the status of its market:
\* the market's yes_shares, no_shares, volume, outcome and resolved_at, the
\* other markets, every wallet, every position and the transaction and trade
\* logs are as before.
UpdateStatusWritesStatusOnly ==
    [][\A p \in Procs, m \in Markets :
          /\ (proc[p].pc = "idle" /\ proc'[p].pc = "status_update") =>
                UNCHANGED tables
          /\ (/\ proc[p].pc = "status_update" /\ proc'[p].pc # "status_update"
              /\ proc[p].market = m) =>
                /\ markets' = [markets EXCEPT ![m].status = markets'[m].status]
                /\ UNCHANGED <<wallets, transactions, positions, trades>>
      ]_vars

\* a market with shares held and volume has been cancelled: the holder's
\* balance is what the buy left and no transaction was added for it
CancelledWithoutRefund ==
    \E m \in Markets, u \in Users :
       /\ reply.op = "updateStatus" /\ reply.error = "ok" /\ reply.market = m
       /\ markets[m].status = "cancelled"
       /\ markets[m].volume > 0
       /\ Holding(u, m, "yes") > 0
       /\ wallets[u].balance < InitialDeposit
       /\ Len(transactions[u]) = 2
====
